---- MODULE Spec2Model ----
(***************************************************************************)
(* Model of the synchronization engine of sync_to_confluence.py:           *)
(* LocalContentManager (content directory, ID mapping), ContentSyncer      *)
(* (push_to_confluence, pull_from_confluence, sync cache, deleted pages)   *)
(* and the ConfluenceAPI calls they make (create_page, update_page,        *)
(* delete_page, get_page_by_id).                                           *)
(*                                                                         *)
(* The remote service is an environment: every request's outcome is an     *)
(* input chosen from a small set.  A run (push or pull) is a sequence of   *)
(* steps, one per loop iteration of the code; the iteration order of a     *)
(* Python set / of Path.glob is not fixed by the code and is chosen        *)
(* nondeterministically.                                                   *)
(***************************************************************************)
EXTENDS Integers, Sequences, FiniteSets, TLC

VARIABLES
    files,          \* content directory: file stem -> parsed JSON document
    cacheFile,      \* sync_cache.json: file stem -> fingerprint
    deletedFile,    \* deleted_pages.json: set of remote ids
    idMapFile,      \* id_mapping.json: remote id -> file stem
    id_to_filename, \* LocalContentManager.id_to_filename of the running process
    pc,             \* "idle", "push" or "pull"
    local_content,  \* push: the enumeration taken at the start of the run
    cache,          \* push: the in-memory sync cache
    deleted_pages,  \* push / pull: the in-memory set of deleted page ids
    todoDel,        \* push: deleted_files not handled yet
    todoRec,        \* push: records of local_content not handled yet
    listing,        \* pull: the pages of the space not handled yet
    calls,          \* requests of the current run, per file stem
    pullLog,        \* pull: what was done for each page id
    nextId,         \* the id the remote assigns to the next created page
    runs,           \* runs started so far
    edits,          \* user edits so far
    faults,         \* steps so far in which a request or a local write failed
    hist,           \* history of the previous and the current run
    upd,            \* a call of update_page on its own: its inputs and its outcome
    now,            \* attachments: the clock, in hours
    failedFile,     \* attachments: the file .failed_attachments
    attLog,         \* attachments: the last call of _download_attachment
    marks,          \* attachments: failures recorded so far
    backing,        \* loading: the state of each backing file
    loaded,         \* loading: the last load and what it gave
    loc,            \* a call of LocalContentManager on its own
    dl,             \* a call of download_attachment on its own
    event_queue,    \* watch: the events the observer has not dispatched yet
    invocations,    \* watch: the calls of on_modified so far
    persisted       \* watch: the entries of sync_cache.json, by the push that wrote them

\* the state of a synchronization run
syncVars == <<files, cacheFile, deletedFile, idMapFile, id_to_filename, pc,
              local_content, cache, deleted_pages, todoDel, todoRec, listing,
              calls, pullLog, nextId, runs, edits, faults, hist>>

\* the state of the calls studied on their own
attachVars == <<now, failedFile, attLog, marks>>
loadVars == <<backing, loaded>>
watchVars == <<event_queue, invocations, persisted>>
unitVars == <<loc, dl, watchVars>>
apiVars == <<upd, attachVars, loadVars, unitVars>>

vars == <<syncVars, apiVars>>

----------------------------------------------------------------------------
(* Bounds of the model *)

MaxRuns == 2
MaxEdits == 2
MaxFaults == 1

----------------------------------------------------------------------------
(* Values *)

NoId == 0                       \* a record without an 'id' (None)
ExistingIds == {1, 2, 3}          \* ids of pages created before the model starts

\* Titles are sequences of characters.
TitleA == <<"a">>
TitleB == <<"B">>
TitleA2 == <<"A">>
Titles == {TitleA, TitleB, TitleA2}

\* str.lower() on one character
LowerChar(c) ==
    CASE c = "A" -> "a"
      [] c = "B" -> "b"
      [] OTHER -> c

\* save_content: title.lower().replace(' ', '_')
DeriveName(title) ==
    [i \in 1..Len(title) |->
        IF LowerChar(title[i]) = " " THEN "_" ELSE LowerChar(title[i])]

\* save_content: f"{title}_mapping.json"
MappingName(name) == name \o <<"_mapping">>

\* The file stems a user writes documents under.
UserStems == {<<"a">>, <<"b">>, <<"x">>}

\* The title a user gives the document stored under a stem:
\* x is a copy of a stored under another file name.
UserTitle(stem) ==
    CASE stem = <<"a">> -> TitleA
      [] stem = <<"b">> -> TitleB
      [] OTHER -> TitleA2

\* The page a user's document under a stem belongs to
OwnId(stem) ==
    CASE stem = <<"a">> -> 1
      [] stem = <<"b">> -> 2
      [] OTHER -> 3

\* A body as the API returns it ({'storage': {'value': v}}), as save_content
\* writes it ({'representation': 'storage', 'value': v}) or empty ({}).
NestedBody(v) == [fmt |-> "nested", value |-> v]
FlatBody(v) == [fmt |-> "flat", value |-> v]
EmptyBody == [fmt |-> "none", value |-> ""]

Doc(id, title, body) == [id |-> id, title |-> title, body |-> body]

\* hashlib.md5 of the file's bytes: equal exactly for equal contents
_get_file_hash(doc) == <<"md5", doc>>

\* Function helpers for dicts
EmptyDict == <<>>
Put(f, k, v) == [x \in DOMAIN f \cup {k} |-> IF x = k THEN v ELSE f[x]]
Remove(f, k) == [x \in DOMAIN f \ {k} |-> f[x]]

----------------------------------------------------------------------------
(* LocalContentManager *)

\* get_local_content: one entry per *.json file of the content directory
get_local_content(fs) ==
    [s \in DOMAIN fs |-> [content |-> fs[s], hash |-> _get_file_hash(fs[s])]]

\* get_page_id_from_filename: the id mapped to the file stem, else None
\* a lookup that finds no file in the mapping
get_page_id_from_filenameNone(map, stem) == NoId

get_page_id_from_filename(map, stem) ==
    IF \E i \in DOMAIN map : map[i] = stem
    THEN CHOOSE i \in DOMAIN map : map[i] = stem
    ELSE NoId

\* save_content: body normalisation
SaveBody(body) ==
    IF body.fmt = "nested" THEN FlatBody(body.value) ELSE EmptyBody

\* save_content: the payload written to both files
SavePayload(content) == Doc(content.id, content.title, SaveBody(content.body))

\* a save that writes the document file before its companion
SaveWritesDocumentFirst(content) ==
    LET name == DeriveName(content.title)
    IN  << [name |-> name, payload |-> SavePayload(content)],
           [name |-> MappingName(name), payload |-> SavePayload(content)] >>

\* save_content: the files it writes, in order: <title>_mapping.json, then
\* <title>.json
SaveWrites(content) ==
    LET name == DeriveName(content.title)
    IN  << [name |-> MappingName(name), payload |-> SavePayload(content)],
           [name |-> name, payload |-> SavePayload(content)] >>

\* the content directory after the first k of the two writes
Written(fs, writes, k) ==
    IF k = 0 THEN fs
    ELSE IF k = 1 THEN Put(fs, writes[1].name, writes[1].payload)
    ELSE Put(Put(fs, writes[1].name, writes[1].payload),
             writes[2].name, writes[2].payload)

\* a save that keeps an existing file and writes a copy beside it
save_contentCopy(fs, content) ==
    LET name == DeriveName(content.title)
    IN  IF name \in DOMAIN fs
        THEN Put(fs, name \o <<"_2">>, SavePayload(content))
        ELSE Written(fs, SaveWrites(content), 2)

save_content(fs, content) == Written(fs, SaveWrites(content), 2)

----------------------------------------------------------------------------
(* ConfluenceAPI.  An HTTP answer is [status, body]: status 0 stands for    *)
(* no answer at all (connection error, timeout); body is the shape of the  *)
(* answer's text.  The outcome of a call is "ok" (it returned), "api" (it   *)
(* raised ConfluenceAPIError with the given status_code) or "crash" (it    *)
(* raised another exception).                                              *)

NoStatus == 0                   \* status_code None
ObjStatus == 0 - 1              \* status_code holds an exception object

Http(status, body) == [status |-> status, body |-> body]
\* raise_for_status() does not raise: there is an answer and it is no 4xx/5xx
IsSuccess(resp) == resp.status # 0 /\ resp.status < 400

\* `e.response and ...`: e.response is None when there was no answer, and
\* requests.Response.__bool__ is Response.ok, false for a 4xx/5xx answer
ResponseTruthy(resp) == resp.status # 0 /\ resp.status < 400

Ok(id, reqs) == [kind |-> "ok", status |-> NoStatus, id |-> id, reqs |-> reqs]
ApiError(status, reqs) ==
    [kind |-> "api", status |-> status, id |-> NoId, reqs |-> reqs]
Crash(reqs) == [kind |-> "crash", status |-> NoStatus, id |-> NoId, reqs |-> reqs]

\* get_space_id: sp is the answer of GET /spaces and whether the space is in it
get_space_id(sp) ==
    IF ~IsSuccess(sp.resp) THEN ApiError(sp.resp.status, <<>>)
    ELSE IF ~sp.found THEN ApiError(404, <<>>)
    ELSE Ok(NoId, <<>>)

\* delete_page: resp is the answer of DELETE /pages/<id>
delete_page(page_id, resp) ==
    LET req == <<[m |-> "DELETE", id |-> page_id]>>
    IN  IF IsSuccess(resp) THEN Ok(NoId, req)
        ELSE IF ResponseTruthy(resp) /\ resp.status = 404 THEN Ok(NoId, req)
        ELSE ApiError(resp.status, req)

\* create_page: c.space is get_space_id's input, c.resp the answer of
\* POST /pages, c.newId the 'id' of the returned JSON (NoId: none)
create_page(content, c) ==
    LET req == <<[m |-> "POST", title |-> content.title]>>
    IN  IF get_space_id(c.space).kind # "ok"
        THEN ApiError(get_space_id(c.space).status, <<>>)
        ELSE IF IsSuccess(c.resp) THEN Ok(c.newId, req)
        ELSE ApiError(c.resp.status, req)

\* a fetch that always fails
get_page_by_idFails(page_id, resp) ==
    [kind |-> "api", status |-> 0, id |-> 0, reqs |-> <<[m |-> "GET", id |-> page_id]>>]

\* get_page_by_id: every failure raises ConfluenceAPIError without status_code
get_page_by_id(page_id, resp) ==
    LET req == <<[m |-> "GET", id |-> page_id]>>
    IN  IF IsSuccess(resp) THEN Ok(page_id, req) ELSE ApiError(NoStatus, req)

\* an error handling that keeps no status code
FinalPutErrorNoStatus(resp, reqs) ==
    [kind |-> "api", status |-> 0, id |-> 0, reqs |-> reqs]

\* update_page, the final PUT's error handling (lines 309-322)
FinalPutError(resp, reqs) ==
    IF resp.status = 0 THEN ApiError(ObjStatus, reqs)        \* not an HTTPError
    ELSE IF resp.body = "json" THEN ApiError(resp.status, reqs)
    ELSE IF resp.body = "emptyerrors" THEN Crash(reqs)       \* [][0]: IndexError
    ELSE ApiError(ObjStatus, reqs)                           \* JSONDecodeError: pass

\* update_page: the number of status polls made after the draft conversion:
\* polls are the statuses the three polls would observe ("fail": the GET fails)
PollsMade(polls) ==
    IF polls[1] # "current" THEN 1
    ELSE IF polls[2] # "current" THEN 2
    ELSE 3

PollReqs(page_id, n) == [i \in 1..n |-> [m |-> "GET", id |-> page_id]]

\* a check that takes every polled status for the draft status
DraftObservedAlways(polls, n) == TRUE

\* line 287: the last poll made observed the draft status
DraftObserved(polls, n) == polls[n] = "draft"

\* an update that never looks at the page's space: one request, no move
update_pageNoMove(page_id, content, u) ==
    LET get == get_page_by_id(page_id, u.get.resp)
        req == [m |-> "PUT", id |-> page_id, status |-> "current",
                version |-> u.get.version + 1, spaceId |-> "none"]
    IN  IF get.kind # "ok" THEN ApiError(NoStatus, get.reqs)
        ELSE IF IsSuccess(u.put) THEN Ok(page_id, get.reqs \o <<req>>)
        ELSE FinalPutError(u.put, get.reqs \o <<req>>)

\* update_page.  u.get: answer of the first GET, with the page's version, space
\* and status; u.space: get_space_id's input; u.draft: answer of the draft PUT;
\* u.polls: the statuses polled; u.put: answer of the final PUT.
update_page(page_id, content, u) ==
    LET get == get_page_by_id(page_id, u.get.resp)
        sp == get_space_id(u.space)
        is_space_move == ~u.get.sameSpace
        convert == is_space_move /\ u.get.pstatus # "draft"
        draftReq == [m |-> "PUT", id |-> page_id, status |-> "draft",
                     version |-> 1, spaceId |-> "none"]
        n == PollsMade(u.polls)
        \* draft_data is a shallow copy: setting its version number to 1
        \* sets update_data's version number too
        finalReq == [m |-> "PUT", id |-> page_id, status |-> "current",
                     version |-> IF convert THEN 1 ELSE u.get.version + 1,
                     spaceId |-> IF is_space_move THEN "new" ELSE "none"]
        r1 == get.reqs
        r2 == IF convert THEN r1 \o <<draftReq>> ELSE r1
        r3 == IF convert THEN r2 \o PollReqs(page_id, n) ELSE r2
        r4 == r3 \o <<finalReq>>
    IN  IF get.kind # "ok" THEN ApiError(NoStatus, r1)
        ELSE IF sp.kind # "ok" THEN ApiError(sp.status, r1)
        ELSE IF convert /\ ~IsSuccess(u.draft) THEN ApiError(ObjStatus, r2)
        ELSE IF convert /\ u.polls[n] = "fail" THEN ApiError(NoStatus, r3)
        ELSE IF convert /\ ~DraftObserved(u.polls, n) THEN ApiError(400, r3)
        ELSE IF IsSuccess(u.put) THEN Ok(page_id, r4)
        ELSE FinalPutError(u.put, r4)

----------------------------------------------------------------------------
(* The inputs of a run: the answers of the remote service *)

SpaceOk == [resp |-> Http(200, "json"), found |-> TRUE]
SpaceMissing == [resp |-> Http(200, "json"), found |-> FALSE]

\* answers to create_page: created, created but the JSON has no id,
\* POST rejected with 404 / 500, the space is not found
CreateInputs(newId) ==
    { [space |-> SpaceOk, resp |-> Http(200, "json"), newId |-> newId],
      [space |-> SpaceOk, resp |-> Http(200, "json"), newId |-> NoId],
      [space |-> SpaceOk, resp |-> Http(404, "json"), newId |-> NoId],
      [space |-> SpaceOk, resp |-> Http(500, "json"), newId |-> NoId] }

CreateSucceeds(newId) ==
    [space |-> SpaceOk, resp |-> Http(200, "json"), newId |-> newId]

GetOk == [resp |-> Http(200, "json"), version |-> 3, sameSpace |-> TRUE,
          pstatus |-> "current"]
GetMissing == [resp |-> Http(404, "json"), version |-> 0, sameSpace |-> TRUE,
               pstatus |-> "current"]
NoPolls == <<"draft", "draft", "draft">>

UpdateInput(get, space, draft, polls, put) ==
    [get |-> get, space |-> space, draft |-> draft, polls |-> polls, put |-> put]

\* answers to update_page within a push: the final PUT is accepted, or
\* rejected with the API's error body (JSON with a non-empty 'errors' list:
\* 404 not found, 409 version conflict), by a gateway (502, no JSON) or
\* with a JSON body whose 'errors' list is empty (400);
\* or the first GET finds no page
PushUpdateInputs ==
    { UpdateInput(GetOk, SpaceOk, Http(200, "json"), NoPolls, put) :
        put \in { Http(200, "json"), Http(404, "json"), Http(409, "json"),
                  Http(502, "text"), Http(400, "emptyerrors") } }
    \cup
    { UpdateInput(GetMissing, SpaceOk, Http(200, "json"), NoPolls, Http(200, "json")) }

UpdateSucceeds == UpdateInput(GetOk, SpaceOk, Http(200, "json"), NoPolls, Http(200, "json"))

DeleteAnswers == { Http(204, "none"), Http(404, "json"), Http(500, "json") }

\* The answers to one record of a push: to its create_page, to its
\* update_page, and to the create_page that follows a 404
PushAnswers(newId) ==
    { <<c, UpdateSucceeds, CreateSucceeds(newId)>> : c \in CreateInputs(newId) }
    \cup { <<CreateSucceeds(newId), u, CreateSucceeds(newId)>> : u \in PushUpdateInputs }
    \cup { <<c, u, c2>> : c \in { x \in CreateInputs(newId) : x.resp.status = 404 },
                          u \in { x \in PushUpdateInputs : x.put.status = 404 },
                          c2 \in CreateInputs(newId) }

----------------------------------------------------------------------------
(* State *)

\* A call of the log: the operation, the page id it is given, its outcome
\* (kind, status_code, returned id, requests issued) and, for update_page, the
\* status of the answers to its first GET and to its final PUT (for
\* delete_page, put is the status of the answer to its DELETE)
Call(op, id, r, get, put) ==
    [op |-> op, id |-> id, kind |-> r.kind, status |-> r.status, newId |-> r.id,
     reqs |-> r.reqs, get |-> get, put |-> put]
\* save_content called by push after a create
Saved(id) ==
    [op |-> "save", id |-> id, kind |-> "ok", status |-> NoStatus, newId |-> id,
     reqs |-> <<>>, get |-> 0, put |-> 0]

\* save_content raised OSError
SaveRaised(id) ==
    [op |-> "save", id |-> id, kind |-> "crash", status |-> NoStatus, newId |-> NoId,
     reqs |-> <<>>, get |-> 0, put |-> 0]

NoCalls == EmptyDict
Log(log, stem, entries) ==
    Put(log, stem, (IF stem \in DOMAIN log THEN log[stem] ELSE <<>>) \o entries)

\* every remote call of the log returned, and every create returned an id
AllCallsOk(log) ==
    \A s \in DOMAIN log : \A i \in 1..Len(log[s]) :
        /\ log[s][i].kind = "ok"
        /\ log[s][i].op = "create" => log[s][i].newId # NoId

\* the ids whose remote delete returned
DeletedBy(log) ==
    UNION { { log[s][i].id : i \in { j \in 1..Len(log[s]) :
                  log[s][j].op = "delete" /\ log[s][j].kind = "ok" } } :
            s \in DOMAIN log }

\* The documents a user has written and pushed before the model starts
SyncedFiles == [s \in UserStems |-> Doc(OwnId(s), UserTitle(s), NestedBody("v1"))]
SyncedCache == [s \in UserStems |-> _get_file_hash(SyncedFiles[s])]
FullMapping == [i \in ExistingIds |-> CHOOSE s \in UserStems : SyncedFiles[s].id = i]

NoStart == [files |-> EmptyDict, cache |-> EmptyDict, deleted |-> {}, map |-> EmptyDict,
            listed |-> <<>>, before |-> EmptyDict]

\* no run has started
InitRun ==
    /\ deletedFile = {}
    /\ pc = "idle"
    /\ local_content = EmptyDict
    /\ cache = EmptyDict
    /\ deleted_pages = {}
    /\ todoDel = {}
    /\ todoRec = {}
    /\ listing = <<>>
    /\ calls = NoCalls
    /\ pullLog = EmptyDict
    /\ nextId = Cardinality(ExistingIds) + 1
    /\ runs = 0
    /\ edits = 0
    /\ faults = 0
    /\ hist = [last |-> "none", lastOk |-> FALSE, rerun |-> FALSE,
               start |-> NoStart, pushDeleted |-> {}]

InitSync ==
    /\ \E synced \in BOOLEAN :
          /\ files = IF synced THEN SyncedFiles ELSE EmptyDict
          /\ cacheFile = IF synced THEN SyncedCache ELSE EmptyDict
    /\ idMapFile \in {EmptyDict, FullMapping}
    /\ id_to_filename = idMapFile
    /\ InitRun

\* no call is studied on its own
NoUpdate == [stage |-> "none"]
NoFile == [state |-> "missing", data |-> EmptyDict]
NoAttempt == [event |-> "none"]
InitAttachIdle == now = 0 /\ failedFile = NoFile /\ attLog = NoAttempt /\ marks = 0
NoLoad == [op |-> "none"]
InitLoadIdle == backing = EmptyDict /\ loaded = NoLoad
NoLocal == [op |-> "none"]
NoDownload == [stage |-> "none"]
InitWatchIdle == event_queue = <<>> /\ invocations = <<>> /\ persisted = {}
InitUnitIdle == loc = NoLocal /\ dl = NoDownload /\ InitWatchIdle
InitApi == upd = NoUpdate /\ InitAttachIdle /\ InitLoadIdle /\ InitUnitIdle

Init == InitSync /\ InitApi

----------------------------------------------------------------------------
(* The user edits the content directory between runs *)

\* the user saves a document under a file name: with the id of its page or,
\* for a new document, without id
UserWrite(stem, id) ==
    /\ pc = "idle"
    /\ edits < MaxEdits
    /\ runs < MaxRuns          \* an edit that no run follows is not modelled
    /\ files' = Put(files, stem, Doc(id, UserTitle(stem), NestedBody("v2")))
    /\ edits' = edits + 1
    /\ hist' = [hist EXCEPT !.last = "edit", !.lastOk = FALSE, !.rerun = FALSE,
                            !.start = NoStart]
    /\ calls' = NoCalls
    /\ pullLog' = EmptyDict
    /\ UNCHANGED <<apiVars, cacheFile, deletedFile, idMapFile, id_to_filename, pc,
                   local_content, cache, deleted_pages, todoDel, todoRec, listing,
                   nextId, runs, faults>>

UserDelete(stem) ==
    /\ pc = "idle"
    /\ edits < MaxEdits
    /\ runs < MaxRuns          \* an edit that no run follows is not modelled
    /\ stem \in DOMAIN files
    /\ files' = Remove(files, stem)
    /\ edits' = edits + 1
    /\ hist' = [hist EXCEPT !.last = "edit", !.lastOk = FALSE, !.rerun = FALSE,
                            !.start = NoStart]
    /\ calls' = NoCalls
    /\ pullLog' = EmptyDict
    /\ UNCHANGED <<apiVars, cacheFile, deletedFile, idMapFile, id_to_filename, pc,
                   local_content, cache, deleted_pages, todoDel, todoRec, listing,
                   nextId, runs, faults>>

----------------------------------------------------------------------------
(* ContentSyncer.push_to_confluence *)

\* a resolution that asks the mapping first
ResolveIdMappingFirst(content, map, stem) ==
    IF get_page_id_from_filename(map, stem) # NoId
    THEN get_page_id_from_filename(map, stem)
    ELSE content.id

\* lines 1102-1105: the id of the record, else the id mapped to its file
ResolveId(content, map, stem) ==
    IF content.id # NoId THEN content.id
    ELSE get_page_id_from_filename(map, stem)

\* line 1109: the resolved id is a deleted page's
IsTombstoned(page_id, deleted) == page_id \in deleted

\* line 1100: the record is handled
IsChanged(current_hash, cch, stem) ==
    stem \notin DOMAIN cch \/ cch[stem] # current_hash

\* lines 1096-1100: the records the loop handles.  cache[filename] is assigned
\* in the iteration of filename alone and the hashes are those of the
\* enumeration, so the test of line 1100 gives what it gives at the start.
ChangedRecords(content, cch) ==
    { s \in DOMAIN content : IsChanged(content[s].hash, cch, s) }

\* line 1130: the error makes push create the page again
IsNotFound(r, page_id) == r.kind = "api" /\ r.status = 404 /\ page_id # NoId

\* the ids of the pages the run created, per file stem
CreatedBy(log) ==
    LET ids(s) == { log[s][i].newId :
                      i \in { j \in 1..Len(log[s]) :
                                /\ log[s][j].op = "create" /\ log[s][j].kind = "ok"
                                /\ log[s][j].newId # NoId } }
    IN  [s \in { x \in DOMAIN log : ids(x) # {} } |-> ids(s)]

\* lines 1147-1148: cache[filename] = current_hash assigns the dictionary
\* in memory
PersistedAfterRecordSaved(file, mem) == mem

PersistedAfterRecord(file, mem) == file

\* lines 1072-1079; newProcess: the command line starts a new process, whose
\* LocalContentManager loads id_mapping.json; the watcher reuses its own
PushStart(newProcess) ==
    /\ pc = "idle"
    /\ runs < MaxRuns
    /\ runs' = runs + 1
    /\ pc' = "push"
    /\ id_to_filename' = IF newProcess THEN idMapFile ELSE id_to_filename
    /\ local_content' = get_local_content(files)
    /\ cache' = cacheFile
    /\ deleted_pages' = deletedFile
    /\ todoDel' = DOMAIN cacheFile \ DOMAIN files
    /\ todoRec' = ChangedRecords(get_local_content(files), cacheFile)
    /\ calls' = NoCalls
    /\ hist' = [hist EXCEPT !.rerun = hist.lastOk, !.lastOk = FALSE,
                            !.start = [files |-> files, cache |-> cacheFile,
                                       deleted |-> deletedFile,
                                       map |-> id_to_filename',
                                       listed |-> <<>>,
                                       before |-> IF hist.last \in {"aborted", "interrupted"}
                                                  THEN CreatedBy(calls)
                                                  ELSE EmptyDict]]
    /\ pullLog' = EmptyDict
    /\ UNCHANGED <<apiVars, files, cacheFile, deletedFile, idMapFile, listing,
                   nextId, edits, faults>>

\* a loop that takes the page for deleted whatever delete_page did
TombstonedAfterDeleteAlways(deleted, page_id, r) == deleted \cup {page_id}

\* lines 1087-1088: deleted_pages.add(page_id) follows delete_page in the
\* try block, and is reached when delete_page returned
TombstonedAfterDelete(deleted, page_id, r) ==
    IF r.kind = "ok" THEN deleted \cup {page_id} ELSE deleted

\* lines 1082-1093: one iteration of the loop over deleted_files
PushDelete(stem, resp) ==
    LET page_id == get_page_id_from_filename(id_to_filename, stem)
        r == delete_page(page_id, resp)
    IN  /\ pc = "push"
        /\ stem \in todoDel
        /\ todoDel' = todoDel \ {stem}
        /\ IF page_id = NoId
           THEN UNCHANGED <<calls, deleted_pages, id_to_filename>>
           ELSE /\ calls' = Log(calls, stem,
                                 <<Call("delete", page_id, r, 0, resp.status)>>)
                /\ deleted_pages' = TombstonedAfterDelete(deleted_pages, page_id, r)
                /\ id_to_filename' =
                      IF r.kind = "ok" THEN Remove(id_to_filename, page_id)
                      ELSE id_to_filename
        /\ faults' = IF page_id # NoId /\ ~IsSuccess(resp) THEN faults + 1 ELSE faults
        /\ faults' <= MaxFaults
        /\ UNCHANGED <<apiVars, files, cacheFile, deletedFile, idMapFile, pc, local_content,
                       cache, todoRec, listing, pullLog, nextId, runs, edits, hist>>

\* lines 1102-1148: the body of the loop for one changed record, with the
\* answers c (create), u (update) and c2 (create after a 404).  Gives the
\* record's log, the content directory, the deleted pages, whether the
\* fingerprint is cached and whether an exception leaves push_to_confluence.
\* saveOk: save_content can write its files (else: OSError at the first open).
HandleRecord(stem, rec, fs, deleted, map, c, u, c2, saveOk) ==
    LET content == rec.content
        page_id == ResolveId(content, map, stem)
        recreate == page_id # NoId /\ IsTombstoned(page_id, deleted)
        updating == page_id # NoId /\ ~recreate
        first == IF updating THEN update_page(page_id, content, u)
                 ELSE create_page(content, c)
        firstCall == IF updating
                     THEN Call("update", page_id, first, u.get.resp.status, u.put.status)
                     ELSE Call("create", NoId, first, 0, 0)
        created1 == ~updating /\ first.kind = "ok" /\ first.id # NoId
        fallback == IsNotFound(first, page_id)
        second == create_page(content, c2)
        created2 == fallback /\ second.kind = "ok" /\ second.id # NoId
        newId == IF created1 THEN first.id ELSE second.id
        save(id) == IF saveOk THEN Saved(id) ELSE SaveRaised(id)
    IN  [ log |-> <<firstCall>>
                  \o (IF created1 THEN <<save(first.id)>> ELSE <<>>)
                  \o (IF fallback THEN <<Call("create", NoId, second, 0, 0)>> ELSE <<>>)
                  \o (IF created2 THEN <<save(second.id)>> ELSE <<>>),
          files |-> IF (created1 \/ created2) /\ saveOk
                    THEN save_content(fs, [content EXCEPT !.id = newId])
                    ELSE fs,
          deleted |-> IF (created1 /\ recreate) \/ (created2 /\ page_id \in deleted)
                      THEN deleted \ {page_id}
                      ELSE deleted,
          cached |-> first.kind = "ok" \/ (fallback /\ second.kind = "ok"),
          created |-> created1 \/ created2,
          raised |-> first.kind = "crash" \/ ((created1 \/ created2) /\ ~saveOk) ]

\* lines 1096-1148: one iteration of the loop over local_content
PushRecord(stem, c, u, c2, saveOk) ==
    LET rec == local_content[stem]
        h == HandleRecord(stem, rec, files, deleted_pages, id_to_filename, c, u, c2,
                          saveOk)
    IN  /\ pc = "push"
        /\ todoDel = {}
        /\ stem \in todoRec
        /\ saveOk \/ h.created      \* a failing write is an input of a save only
        /\ faults' = IF AllCallsOk([r \in {stem} |-> h.log]) THEN faults
                      ELSE faults + 1
        /\ faults' <= MaxFaults
        /\ IF h.raised
           THEN \* the exception ends the run: nothing is written back
                /\ pc' = "idle"
                /\ calls' = Log(calls, stem, h.log)
                /\ todoRec' = {}
                /\ local_content' = EmptyDict
                /\ cache' = EmptyDict
                /\ deleted_pages' = {}
                /\ hist' = [hist EXCEPT !.last = "aborted"]
                /\ nextId' = IF h.created THEN nextId + 1 ELSE nextId
                /\ UNCHANGED files
           ELSE /\ todoRec' = todoRec \ {stem}
                /\ calls' = Log(calls, stem, h.log)
                /\ files' = h.files
                /\ deleted_pages' = h.deleted
                /\ cache' = IF h.cached THEN Put(cache, stem, rec.hash) ELSE cache
                /\ nextId' = IF h.created THEN nextId + 1 ELSE nextId
                /\ UNCHANGED <<pc, local_content, hist>>
        /\ cacheFile' = PersistedAfterRecord(cacheFile, cache')
        /\ UNCHANGED <<apiVars, deletedFile, idMapFile, id_to_filename, todoDel,
                       listing, pullLog, runs, edits>>

\* the process is stopped while push_to_confluence runs: what it holds in
\* memory is gone, the files are as they are
PushInterrupt ==
    /\ pc = "push"
    /\ pc' = "idle"
    /\ todoDel' = {}
    /\ todoRec' = {}
    /\ local_content' = EmptyDict
    /\ cache' = EmptyDict
    /\ deleted_pages' = {}
    /\ hist' = [hist EXCEPT !.last = "interrupted"]
    /\ UNCHANGED <<apiVars, files, cacheFile, deletedFile, idMapFile, id_to_filename,
                   listing, calls, pullLog, nextId, runs, edits, faults>>

\* lines 1150-1153: _save_cache, _save_deleted_pages
PushFinish ==
    /\ pc = "push"
    /\ todoDel = {}
    /\ todoRec = {}
    /\ cacheFile' = cache
    /\ deletedFile' = deleted_pages
    /\ pc' = "idle"
    /\ local_content' = EmptyDict
    /\ cache' = EmptyDict
    /\ deleted_pages' = {}
    /\ hist' = [hist EXCEPT !.last = "push", !.lastOk = AllCallsOk(calls),
                  !.pushDeleted = hist.pushDeleted \cup DeletedBy(calls)]
    /\ UNCHANGED <<apiVars, files, idMapFile, id_to_filename, todoDel, todoRec, listing,
                   calls, pullLog, nextId, runs, edits, faults>>

----------------------------------------------------------------------------
(* ContentSyncer.pull_from_confluence *)

\* The pages the space may list, in the order listed
RemotePage(id, title) == [id |-> id, title |-> title]
Listings ==
    { <<RemotePage(1, TitleA), RemotePage(2, TitleB)>>,
      <<RemotePage(1, TitleB)>> }

\* a pull that ignores the Tombstone Set
PullSkipsNothing(page_id, deleted) == FALSE

\* line 1042: the page was deleted by a push
PullSkips(page_id, deleted) == page_id \in deleted

\* the run before was a pull that returned after it had saved or skipped
\* every one of these pages, and nothing was written since
PulledBefore(pages) ==
    /\ hist.last = "pull"
    /\ hist.start.listed = pages
    /\ \A k \in 1..Len(pages) :
          /\ pages[k].id \in DOMAIN pullLog
          /\ \E e \in 1..Len(pullLog[pages[k].id]) :
                pullLog[pages[k].id][e] \in {"skip", "save"}

\* lines 1028-1037: get_space_content and _load_deleted_pages
PullStart(pages, listed) ==
    /\ pc = "idle"
    /\ runs < MaxRuns
    /\ runs' = runs + 1
    /\ pullLog' = EmptyDict
    /\ calls' = NoCalls
    /\ hist' = [hist EXCEPT !.last = "pull", !.lastOk = FALSE,
                            !.rerun = listed /\ PulledBefore(pages),
                            !.start = [files |-> files, cache |-> cacheFile,
                                       deleted |-> deletedFile,
                                       map |-> id_to_filename,
                                       listed |-> IF listed THEN pages ELSE <<>>,
                                       before |-> EmptyDict]]
    /\ IF listed
       THEN /\ pc' = "pull"
            /\ listing' = pages
            /\ deleted_pages' = deletedFile
       ELSE UNCHANGED <<pc, listing, deleted_pages>>
    /\ faults' = IF listed THEN faults ELSE faults + 1
    /\ faults' <= MaxFaults
    /\ UNCHANGED <<apiVars, files, cacheFile, deletedFile, idMapFile, id_to_filename,
                   local_content, cache, todoDel, todoRec, nextId, edits>>

\* the payload get_page_by_id returns for a listed page
FullPage(page) == Doc(page.id, page.title, NestedBody("v1"))

\* what the log keeps of the payload fetch: the status of its answer
GetEvent(fetch) == IF fetch.status = 200 THEN "get_200" ELSE "get_failed"

\* lines 1038-1065: one iteration of the loop over the listed pages.
\* fetch: the answer of get_page_by_id;
\* att: "listfail" (get_attachments raises), "none" (no attachment),
\* "download" (one attachment, handed to _download_attachment);
\* saveOk: save_content can write its files (else: OSError at the first open,
\* which no except clause of the loop catches)
PullPage(fetch, att, saveOk) ==
    LET page == Head(listing)
        page_id == page.id
        full == get_page_by_id(page_id, fetch)
        saving == ~PullSkips(page_id, deleted_pages) /\ full.kind = "ok"
        events == IF PullSkips(page_id, deleted_pages) THEN <<"skip">>
                  ELSE IF full.kind # "ok" THEN <<GetEvent(fetch)>>
                  ELSE IF ~saveOk THEN <<GetEvent(fetch), "save_raised">>
                  ELSE IF att = "download"
                       THEN <<GetEvent(fetch), "save", "get_attachments", "download">>
                  ELSE IF att = "listfail"
                       THEN <<GetEvent(fetch), "save", "get_attachments_failed">>
                       ELSE <<GetEvent(fetch), "save", "get_attachments">>
    IN  /\ pc = "pull"
        /\ listing # <<>>
        /\ saveOk \/ saving          \* a failing write is an input of a save only
        /\ pullLog' = Put(pullLog, page_id,
                          (IF page_id \in DOMAIN pullLog THEN pullLog[page_id]
                           ELSE <<>>) \o events)
        /\ files' = IF saving /\ saveOk THEN save_content(files, FullPage(page))
                    ELSE files
        /\ IF saving /\ ~saveOk
           THEN \* the exception ends the run
                /\ pc' = "idle"
                /\ listing' = <<>>
                /\ deleted_pages' = {}
                /\ hist' = [hist EXCEPT !.last = "pull_aborted"]
           ELSE /\ listing' = Tail(listing)
                /\ UNCHANGED <<pc, deleted_pages, hist>>
        /\ faults' = IF ~PullSkips(page_id, deleted_pages)
                         /\ (full.kind # "ok" \/ att = "listfail" \/ ~saveOk)
                      THEN faults + 1 ELSE faults
        /\ faults' <= MaxFaults
        /\ UNCHANGED <<apiVars, cacheFile, deletedFile, idMapFile, id_to_filename,
                       local_content, cache, todoDel, todoRec,
                       calls, nextId, runs, edits>>

\* a pull that ends by recording the files of the content directory as synced
PullFinishRecordsSynced ==
    /\ pc = "pull"
    /\ listing = <<>>
    /\ pc' = "idle"
    /\ deleted_pages' = {}
    /\ cacheFile' = [s \in DOMAIN files |-> _get_file_hash(files[s])]
    /\ UNCHANGED <<apiVars, files, deletedFile, idMapFile, id_to_filename,
                   local_content, cache, todoDel, todoRec, listing, calls,
                   pullLog, nextId, runs, edits, faults, hist>>

\* line 1067
PullFinish ==
    /\ pc = "pull"
    /\ listing = <<>>
    /\ pc' = "idle"
    /\ deleted_pages' = {}
    /\ UNCHANGED <<apiVars, files, cacheFile, deletedFile, idMapFile, id_to_filename,
                   local_content, cache, todoDel, todoRec, listing, calls,
                   pullLog, nextId, runs, edits, faults, hist>>

----------------------------------------------------------------------------
(* Specification *)

FetchAnswers == { Http(200, "json"), Http(404, "json") }

Next ==
    \/ \E stem \in UserStems : \E id \in {NoId, OwnId(stem)} : UserWrite(stem, id)
    \/ \E stem \in UserStems : UserDelete(stem)
    \/ \E newProcess \in BOOLEAN : PushStart(newProcess)
    \/ \E stem \in todoDel, resp \in DeleteAnswers : PushDelete(stem, resp)
    \/ \E stem \in todoRec, a \in PushAnswers(nextId), saveOk \in BOOLEAN :
          PushRecord(stem, a[1], a[2], a[3], saveOk)
    \/ PushFinish
    \/ \E pages \in Listings, listed \in BOOLEAN : PullStart(pages, listed)
    \/ \E fetch \in FetchAnswers, att \in {"listfail", "none", "download"},
          saveOk \in BOOLEAN :
          PullPage(fetch, att, saveOk)
    \/ PullFinish

Spec == Init /\ [][Next]_vars

----------------------------------------------------------------------------
(* ConfluenceAPI.update_page on its own: every combination of answers *)

MaxVersion == 3

\* answers of the first GET: the page with its version, whether it is in the
\* configured space and its status; or no page
GetAnswers ==
    { [resp |-> Http(200, "json"), version |-> v, sameSpace |-> m, pstatus |-> st] :
        v \in 1..MaxVersion, m \in BOOLEAN, st \in {"current", "draft"} }
    \cup {GetMissing}

\* the statuses the three polls after a draft conversion may observe
PollAnswers == [1..3 -> {"draft", "current", "fail"}]

PutAnswers ==
    { Http(200, "json"), Http(404, "json"), Http(409, "json"), Http(502, "text"),
      Http(400, "emptyerrors") }

UpdateInputs ==
    { UpdateInput(g, sp, d, p, put) :
        g \in GetAnswers, sp \in {SpaceOk, SpaceMissing},
        d \in {Http(200, "json"), Http(500, "json")},
        p \in PollAnswers, put \in PutAnswers }

InitUpdate ==
    /\ InitSync
    /\ \E u \in UpdateInputs, v \in {"v1", "v2"} :
          upd = [stage |-> "input", page_id |-> 1,
                 content |-> Doc(1, TitleA, NestedBody(v)), u |-> u]
    /\ InitAttachIdle
    /\ InitLoadIdle
    /\ InitUnitIdle

\* the call is made
UpdateCall ==
    /\ upd.stage = "input"
    /\ upd' = [stage |-> "done", page_id |-> upd.page_id, content |-> upd.content,
               u |-> upd.u,
               res |-> update_page(upd.page_id, upd.content, upd.u)]
    /\ UNCHANGED <<syncVars, attachVars, loadVars, unitVars>>

NextUpdate == UpdateCall

UpdateSpec == InitUpdate /\ [][NextUpdate]_vars

\* the call has ended; its requests, its PUT requests and its final request
UpdateDone == upd.stage = "done"
UpdReqs == upd.res.reqs
UpdPuts == { k \in 1..Len(UpdReqs) : UpdReqs[k].m = "PUT" }
FinalMade ==
    /\ UpdReqs # <<>>
    /\ UpdReqs[Len(UpdReqs)].m = "PUT"
    /\ UpdReqs[Len(UpdReqs)].status = "current"
FinalReq == UpdReqs[Len(UpdReqs)]
DraftPuts == { k \in UpdPuts : UpdReqs[k].status = "draft" }
IsMove == ~upd.u.get.sameSpace

----------------------------------------------------------------------------
(* Properties *)

\* push_to_confluence has returned and nothing happened since
PushReturned == pc = "idle" /\ hist.last = "push"

\* push_to_confluence has ended, by returning or by an exception
PushEnded == pc = "idle" /\ hist.last \in {"push", "aborted"}

\* the calls of the run's log for a stem
CallsOf(stem) == IF stem \in DOMAIN calls THEN calls[stem] ELSE <<>>
OpsOf(stem, op) == { i \in 1..Len(CallsOf(stem)) : CallsOf(stem)[i].op = op }
AllOps(op) == { <<s, i>> \in UNION { {s} \X (1..Len(calls[s])) : s \in DOMAIN calls } :
                  calls[s][i].op = op }

\* a create of the record returned an id
CreatedIds(stem) ==
    { CallsOf(stem)[i].newId : i \in { j \in OpsOf(stem, "create") :
          CallsOf(stem)[j].kind = "ok" /\ CallsOf(stem)[j].newId # NoId } }

\* C1: a push that follows a push which completed with every remote call
\* succeeding, with no change to the local files in between, issues no
\* remote create, update or delete call.
C1_PushIdempotent ==
    (PushReturned /\ hist.rerun) => calls = NoCalls

\* the run's start: a record of the enumeration, its fingerprint, the id it
\* resolves to, and whether its fingerprint differed from its cache entry
StartHash(stem) == _get_file_hash(hist.start.files[stem])
StartResolved(stem) ==
    IF hist.start.files[stem].id # NoId THEN hist.start.files[stem].id
    ELSE IF \E i \in DOMAIN hist.start.map : hist.start.map[i] = stem
         THEN CHOOSE i \in DOMAIN hist.start.map : hist.start.map[i] = stem
         ELSE NoId
UnchangedAtStart(stem) ==
    stem \in DOMAIN hist.start.cache /\ hist.start.cache[stem] = StartHash(stem)
ChangedAtStart(stem) == ~UnchangedAtStart(stem)

\* a create or an update of the record succeeded in this run
Succeeded(stem) ==
    \/ \E i \in OpsOf(stem, "update") : CallsOf(stem)[i].kind = "ok"
    \/ CreatedIds(stem) # {}

\* the record's cache entry is what it was at the start of the run
CacheEntryKept(stem) ==
    /\ stem \in DOMAIN cacheFile <=> stem \in DOMAIN hist.start.cache
    /\ stem \in DOMAIN cacheFile => cacheFile[stem] = hist.start.cache[stem]

\* C2: when a changed record resolves to a tombstoned id R, push issues a
\* create and no update against R, and when the create succeeds R leaves the
\* Tombstone Set and the ID Mapping maps the new id to the record's file.
C2_TombstoneRecreate ==
    PushReturned =>
        \A s \in DOMAIN hist.start.files :
            (ChangedAtStart(s) /\ StartResolved(s) # NoId
                /\ StartResolved(s) \in hist.start.deleted)
            => /\ OpsOf(s, "create") # {}
               /\ \A i \in OpsOf(s, "update") : CallsOf(s)[i].id # StartResolved(s)
               /\ \A n \in CreatedIds(s) :
                     /\ StartResolved(s) \notin deletedFile
                     /\ n \in DOMAIN id_to_filename
                     /\ id_to_filename[n] = s

\* C3: a pull skips every listed page whose id is in the Tombstone Set: it
\* fetches nothing, saves nothing and transfers no attachment for it.
C3_NoResurrectionByPull ==
    [][ (pc = "pull" /\ listing # <<>> /\ Head(listing).id \in deletedFile)
        => /\ files' = files
           /\ pullLog'[Head(listing).id] =
                 (IF Head(listing).id \in DOMAIN pullLog
                  THEN pullLog[Head(listing).id] ELSE <<>>) \o <<"skip">> ]_vars

\* C3 witness: a pull skipped a listed page that a completed push had deleted
C3_Witness ==
    \E id \in DOMAIN pullLog :
        id \in hist.pushDeleted /\ id \in deletedFile /\ pullLog[id] = <<"skip">>

\* C4: from empty cache, mapping and tombstones and one file without id, a
\* push whose create succeeds issues one create and nothing else, caches the
\* fingerprint of the file as it is on disk, and the file embeds the new id.
C4_EndToEndCreate ==
    \A s \in DOMAIN hist.start.files :
        ( /\ PushReturned
          /\ DOMAIN hist.start.cache = {}
          /\ DOMAIN hist.start.map = {}
          /\ hist.start.deleted = {}
          /\ DOMAIN hist.start.files = {s}
          /\ hist.start.files[s].id = NoId
          /\ CreatedIds(s) # {} )
        => /\ Cardinality(AllOps("create")) = 1
           /\ AllOps("update") = {}
           /\ AllOps("delete") = {}
           /\ s \in DOMAIN cacheFile
           /\ s \in DOMAIN files
           /\ cacheFile[s] = _get_file_hash(files[s])
           /\ files[s].id \in CreatedIds(s)

\* the scenario of C5: the cache holds exactly A, B and C; A and B are local
\* files with the cached fingerprints; C is absent and mapped to an id
DeleteScenario(A, B, C) ==
    /\ A # B /\ A # C /\ B # C
    /\ DOMAIN hist.start.cache = {A, B, C}
    /\ A \in DOMAIN hist.start.files /\ UnchangedAtStart(A)
    /\ B \in DOMAIN hist.start.files /\ UnchangedAtStart(B)
    /\ C \notin DOMAIN hist.start.files
    /\ \E i \in DOMAIN hist.start.map : hist.start.map[i] = C

\* C5: in that scenario push issues exactly one delete call, for the id
\* mapped to C, and no remote call for A or B.
C5_EndToEndDelete ==
    \A A \in DOMAIN hist.start.cache, B \in DOMAIN hist.start.cache,
       C \in DOMAIN hist.start.cache :
        (PushEnded /\ DeleteScenario(A, B, C))
        => /\ AllOps("delete") = {<<C, 1>>}
           /\ hist.start.map[calls[C][1].id] = C
           /\ CallsOf(A) = <<>>
           /\ CallsOf(B) = <<>>

\* C5 witness: the scenario happened and the push has ended
C5_Witness ==
    \E A \in DOMAIN hist.start.cache, B \in DOMAIN hist.start.cache,
       C \in DOMAIN hist.start.cache :
        PushEnded /\ DeleteScenario(A, B, C) /\ CallsOf(C) # <<>>

\* C6: for every local file whose fingerprint equals its cache entry, push
\* issues no create and no update for it and leaves the file and its cache
\* entry as they were.
C6_UnchangedSkipped ==
    PushEnded =>
        \A s \in DOMAIN hist.start.files :
            UnchangedAtStart(s)
            => /\ OpsOf(s, "create") = {}
               /\ OpsOf(s, "update") = {}
               /\ s \in DOMAIN cacheFile /\ cacheFile[s] = hist.start.cache[s]
               /\ s \in DOMAIN files /\ files[s] = hist.start.files[s]

\* C7: when push returns, a changed record for which no create and no update
\* succeeded (a create without remote id included) keeps the cache entry it
\* had, stale or absent, so that the next push handles it again.
C7_NothingDropped ==
    PushReturned =>
        \A s \in DOMAIN hist.start.files :
            (ChangedAtStart(s) /\ ~Succeeded(s)) => CacheEntryKept(s)

\* C8: a failed remote call for one record never keeps push from handling
\* the others: push returns, every changed record and every deleted mapped
\* file has its call, cache and tombstones are persisted, and a failed create
\* is followed by no update and no re-save of its record.
C8_BatchIsolation ==
    PushEnded =>
        /\ hist.last = "push"
        /\ \A s \in DOMAIN hist.start.files : ChangedAtStart(s) => CallsOf(s) # <<>>
        /\ \A s \in DOMAIN hist.start.cache \ DOMAIN hist.start.files :
              (\E i \in DOMAIN hist.start.map : hist.start.map[i] = s)
              => OpsOf(s, "delete") # {}
        /\ \A s \in DOMAIN calls :
              /\ (\E i \in OpsOf(s, "update") : CallsOf(s)[i].kind = "ok")
                 => (s \in DOMAIN cacheFile /\ cacheFile[s] = StartHash(s))
              /\ \A i \in OpsOf(s, "delete") :
                    CallsOf(s)[i].kind = "ok"
                    => (CallsOf(s)[i].id \in deletedFile
                        \/ \E t \in DOMAIN calls : CreatedIds(t) # {})
              /\ \A i \in OpsOf(s, "create") :
                    (CallsOf(s)[i].kind # "ok"
                     /\ \A j \in OpsOf(s, "create") : j <= i)
                    => /\ OpsOf(s, "save") = {}
                       /\ \A j \in OpsOf(s, "update") : j < i

\* the update of a record was rejected by the final PUT with a version conflict
Conflicted(stem, i) ==
    /\ i \in OpsOf(stem, "update")
    /\ CallsOf(stem)[i].get = 200
    /\ CallsOf(stem)[i].put = 409

VanishedAt(stem, i) ==
    /\ i \in OpsOf(stem, "update")
    /\ \/ CallsOf(stem)[i].get = 404
       \/ CallsOf(stem)[i].get = 200 /\ CallsOf(stem)[i].put = 404

\* C10: an update that fails because the remote page no longer exists, at
\* the first GET included, is followed by a create call; when the create
\* returns an id the record embeds it, the old id leaves the Tombstone Set
\* and the fingerprint is cached.
C10_NotFoundFallback ==
    PushReturned =>
        \A s \in DOMAIN calls : \A i \in 1..Len(calls[s]) :
            VanishedAt(s, i)
            => /\ \E j \in OpsOf(s, "create") : j > i
               /\ \A n \in CreatedIds(s) :
                     /\ s \in DOMAIN files /\ files[s].id = n
                     /\ calls[s][i].id \notin deletedFile
                     /\ s \in DOMAIN cacheFile /\ cacheFile[s] = StartHash(s)

\* the delete call of a file was answered with 404
DeleteAnswered404(stem, i) ==
    i \in OpsOf(stem, "delete") /\ CallsOf(stem)[i].put = 404

\* C11: when the remote answers the delete request with 404, delete_page
\* returns normally and push treats the page as deleted: its id is in the
\* Tombstone Set and its mapping entry is removed.
C11_DeleteNotFoundIsDeleted ==
    PushReturned =>
        \A s \in DOMAIN calls : \A i \in 1..Len(calls[s]) :
            DeleteAnswered404(s, i)
            => /\ calls[s][i].kind = "ok"
               /\ calls[s][i].id \in deletedFile
               /\ calls[s][i].id \notin DOMAIN id_to_filename

\* C12: when push returns, every id whose remote delete succeeded is in the
\* persisted Tombstone Set and has no entry in the persisted ID Mapping.
C12_StateAfterPushDeletion ==
    PushReturned =>
        \A R \in DeletedBy(calls) :
            /\ R \in deletedFile
            /\ R \notin DOMAIN idMapFile

\* C13: after pull saved a remote document and after push created a remote
\* document for a record, the ID Mapping maps the remote id to the file.
C13_MappingEstablished ==
    /\ (pc = "idle" /\ hist.last = "pull")
       => \A id \in DOMAIN pullLog :
             (\E k \in 1..Len(pullLog[id]) : pullLog[id][k] = "save")
             => id \in DOMAIN id_to_filename
    /\ PushReturned
       => \A s \in DOMAIN calls : \A n \in CreatedIds(s) :
             /\ n \in DOMAIN id_to_filename
             /\ id_to_filename[n] = s
             /\ n \in DOMAIN idMapFile

\* C14: an update within the page's space issues exactly one update request,
\* with status current and no space field; a move of a page that is not a
\* draft issues a draft conversion before the final request, which carries
\* the new space; a move of a draft issues the final request alone, carrying
\* the new space.
C14_MoveRequestSequence ==
    UpdateDone =>
        /\ (upd.res.kind = "ok" \/ UpdPuts # {}) => IsSuccess(upd.u.get.resp)
        /\ upd.res.kind = "ok" => FinalMade
        /\ (FinalMade /\ ~IsMove)
           => /\ Cardinality(UpdPuts) = 1
              /\ FinalReq.spaceId = "none"
        /\ (~IsMove /\ IsSuccess(upd.u.get.resp) /\ get_space_id(upd.u.space).kind = "ok")
           => FinalMade
        /\ (IsMove /\ upd.u.get.pstatus # "draft" /\ UpdPuts # {})
           => /\ DraftPuts # {}
              /\ \A k \in UpdPuts : UpdReqs[k].status = "current" =>
                    \E d \in DraftPuts : d < k
              /\ FinalMade => (Cardinality(UpdPuts) = 2 /\ FinalReq.spaceId = "new")
        /\ (IsMove /\ upd.u.get.pstatus = "draft" /\ UpdPuts # {})
           => /\ DraftPuts = {}
              /\ Cardinality(UpdPuts) = 1
              /\ FinalMade /\ FinalReq.spaceId = "new"

\* C14 witness: a page that is not a draft was moved: converted, then updated
C14_Witness ==
    /\ UpdateDone /\ upd.res.kind = "ok"
    /\ IsMove /\ upd.u.get.pstatus = "current"
    /\ Cardinality(UpdPuts) = 2

\* C15: the final update request carries the fetched version plus one, on
\* every path, the draft conversion of a move included.
C15_VersionRule ==
    (UpdateDone /\ FinalMade) =>
        /\ UpdReqs[1].m = "GET"
        /\ FinalReq.version = upd.u.get.version + 1

----------------------------------------------------------------------------
(* ConfluenceAPI._download_attachment and the memory of failed attachments *)

SkipAfter == 3          \* failures after which an attachment is skipped
WindowHours == 24       \* timedelta(hours=24)

MaxNow == 50
MaxMarks == 4

AttachmentNames == {"f.png", "g.png"}
Delays == {12, 13}

\* the file's JSON holds a list of failure times for the name
HasFailures(file, filename) ==
    file.state = "ok" /\ filename \in DOMAIN file.data

\* a check that never skips
_should_skip_attachmentNever(file, filename, t) == FALSE

\* _should_skip_attachment at time t
_should_skip_attachment(file, filename, t) ==
    IF file.state # "ok" THEN FALSE      \* no file, or JSONDecodeError: False
    ELSE /\ filename \in DOMAIN file.data
         /\ Len(file.data[filename]) >= SkipAfter
         /\ t - file.data[filename][Len(file.data[filename])] < WindowHours

\* the times of a list that are less than 24 hours before t, in order
RECURSIVE Recent(_, _)
Recent(failures, t) ==
    IF failures = <<>> THEN <<>>
    ELSE IF t - Head(failures) < WindowHours
         THEN <<Head(failures)>> \o Recent(Tail(failures), t)
         ELSE Recent(Tail(failures), t)

\* _mark_failed_attachment at time t: the file it leaves
_mark_failed_attachment(file, filename, t) ==
    LET old == IF HasFailures(file, filename) THEN file.data[filename] ELSE <<>>
    IN  IF file.state = "corrupt" THEN file       \* JSONDecodeError: logged
        ELSE [state |-> "ok",
              data |-> Put(file.data, filename, Recent(old \o <<t>>, t))]

\* _clear_failed_attachment: the file it leaves
_clear_failed_attachment(file, filename) ==
    IF file.state # "ok" THEN file
    ELSE [state |-> "ok", data |-> Remove(file.data, filename)]

\* a metadata step whose failure leaves it as an exception
_save_attachment_metadataRaises(metaOk) ==
    [saved |-> metaOk, raised |-> ~metaOk]

\* _save_attachment_metadata: the metadata file is written when the
\* metadata could be fetched and stored; every exception is caught and logged
_save_attachment_metadata(metaOk) ==
    [saved |-> metaOk, raised |-> FALSE]

\* _download_attachment at time t; outcome: "ok", "failed" (download_attachment
\* raises), "write_failed" (OSError writing the attachment file) or
\* "metadata_failed" (the attachment is written; get_attachment_metadata
\* raises, or the metadata file cannot be written).
\* wrote: the attachment file was written; meta: what became of its metadata
_download_attachment(file, filename, t, outcome) ==
    LET cleared == _clear_failed_attachment(file, filename)
        m == _save_attachment_metadata(outcome = "ok")
        meta == IF m.saved THEN "saved" ELSE "failed"
    IN  IF _should_skip_attachment(file, filename, t)
        THEN [event |-> "skip", file |-> file, wrote |-> FALSE, meta |-> "none"]
        ELSE IF outcome = "failed"
        THEN [event |-> "failed", file |-> _mark_failed_attachment(file, filename, t),
              wrote |-> FALSE, meta |-> "none"]
        ELSE IF outcome = "write_failed"
        THEN [event |-> "write_failed", file |-> file, wrote |-> FALSE, meta |-> "none"]
        ELSE IF m.raised
        THEN \* line 681: except Exception
             [event |-> "failed", file |-> _mark_failed_attachment(cleared, filename, t),
              wrote |-> TRUE, meta |-> meta]
        ELSE [event |-> "downloaded", file |-> cleared, wrote |-> TRUE, meta |-> meta]

InitAttach ==
    /\ InitSync /\ files = EmptyDict /\ idMapFile = EmptyDict
    /\ upd = NoUpdate
    /\ InitLoadIdle
    /\ InitUnitIdle
    /\ now = 0
    /\ failedFile \in { NoFile, [state |-> "corrupt", data |-> EmptyDict] }
    /\ attLog = NoAttempt
    /\ marks = 0

\* time passes
Advance(d) ==
    /\ now + d <= MaxNow
    /\ now' = now + d
    /\ UNCHANGED <<syncVars, upd, loadVars, unitVars, failedFile, attLog, marks>>

\* pull hands an attachment to _download_attachment
Attempt(filename, outcome) ==
    LET r == _download_attachment(failedFile, filename, now, outcome)
    IN  /\ marks' = IF r.event = "failed" THEN marks + 1 ELSE marks
        /\ marks' <= MaxMarks
        /\ failedFile' = r.file
        /\ attLog' = [event |-> r.event, filename |-> filename, at |-> now,
                      before |-> failedFile, wrote |-> r.wrote, meta |-> r.meta]
        /\ UNCHANGED <<syncVars, upd, loadVars, unitVars, now>>

NextAttach ==
    \/ \E d \in Delays : Advance(d)
    \/ \E filename \in AttachmentNames,
          outcome \in {"ok", "failed", "write_failed", "metadata_failed"} :
          Attempt(filename, outcome)

AttachSpec == InitAttach /\ [][NextAttach]_vars

\* the failures recorded for the attempt's name before the attempt, and
\* those of them less than 24 hours old at the attempt
Recorded ==
    IF HasFailures(attLog.before, attLog.filename)
    THEN attLog.before.data[attLog.filename] ELSE <<>>
Live == { k \in 1..Len(Recorded) : attLog.at - Recorded[k] < WindowHours }
Attempted == attLog.event # "none"

\* C16: with 3 recorded failures still within 24 hours the attempt is
\* skipped; once every recorded failure is older than 24 hours the
\* attachment is attempted again.
C16_SkipWindow ==
    Attempted =>
        /\ Cardinality(Live) >= SkipAfter => attLog.event = "skip"
        /\ (\A k \in 1..Len(Recorded) : attLog.at - Recorded[k] > WindowHours)
           => attLog.event # "skip"

\* C16 witness: a name with 3 failures was skipped, and later, the failures
\* being older than 24 hours, attempted again
C16_Witness ==
    /\ Attempted
    /\ Len(Recorded) >= SkipAfter
    /\ \A k \in 1..Len(Recorded) : attLog.at - Recorded[k] > WindowHours
    /\ attLog.event = "failed"

\* C17: an attempt is skipped exactly when at least 3 recorded failures of
\* the name are less than 24 hours old; older failures are not counted.
C17_RollingWindow ==
    Attempted => (attLog.event = "skip" <=> Cardinality(Live) >= SkipAfter)

----------------------------------------------------------------------------
(* Properties of pull_from_confluence and of local write failures *)

\* pull_from_confluence has returned / has ended, by returning or by an
\* exception
PullReturned == pc = "idle" /\ hist.last = "pull"
PullEnded == pc = "idle" /\ hist.last \in {"pull", "pull_aborted"}

\* what the run logged for a page id
EventsOf(id) == IF id \in DOMAIN pullLog THEN pullLog[id] ELSE <<>>
CountOf(id, e) == Cardinality({ k \in 1..Len(EventsOf(id)) : EventsOf(id)[k] = e })

\* the listed page is one pull has to save: not tombstoned, payload fetched
ToSave(page) == page.id \notin hist.start.deleted /\ CountOf(page.id, "get_200") = 1

\* the content directory after saving, in order, the pages to save
RECURSIVE SaveAll(_, _)
SaveAll(fs, pages) ==
    IF pages = <<>> THEN fs
    ELSE SaveAll(IF ToSave(Head(pages)) THEN save_content(fs, FullPage(Head(pages)))
                 ELSE fs,
                 Tail(pages))

\* C18: pull saves exactly the listed pages that are not tombstoned and
\* whose payload fetch succeeded, each once, with its payload and in the
\* order listed; a failed fetch or a failed attachment listing keeps no later
\* page from being handled, and pull returns (only a failing local write
\* ends it early).
C18_PullPartialSuccess ==
    PullEnded =>
        /\ hist.last = "pull_aborted"
           => \E id \in DOMAIN pullLog : CountOf(id, "save_raised") > 0
        /\ hist.last = "pull"
           => /\ \A k \in 1..Len(hist.start.listed) :
                    LET page == hist.start.listed[k]
                    IN  /\ EventsOf(page.id) # <<>>
                        /\ CountOf(page.id, "save") = IF ToSave(page) THEN 1 ELSE 0
                        /\ page.id \in hist.start.deleted
                           => EventsOf(page.id) = <<"skip">>
                        /\ page.id \notin hist.start.deleted
                           => CountOf(page.id, "get_200")
                              + CountOf(page.id, "get_failed") = 1
              /\ files = SaveAll(hist.start.files, hist.start.listed)

\* C18 witness: pull returned after a failed payload fetch for the first
\* listed page and a save of the second
C18_Witness ==
    /\ PullReturned
    /\ Len(hist.start.listed) = 2
    /\ CountOf(hist.start.listed[1].id, "get_failed") = 1
    /\ CountOf(hist.start.listed[2].id, "save") = 1

\* a local write failed in the run that has ended
WriteFailed ==
    \/ \E id \in DOMAIN pullLog : CountOf(id, "save_raised") > 0
    \/ \E s \in DOMAIN calls : \E i \in OpsOf(s, "save") : calls[s][i].kind = "crash"

\* C20: when a local write fails, only that item is abandoned: the run goes
\* on and returns, and push persists Sync Cache and Tombstone Set.
C20_LocalIoPerItem ==
    ((PushEnded \/ PullEnded) /\ WriteFailed) =>
        /\ hist.last \in {"push", "pull"}
        /\ hist.last = "push"
           => \A s \in DOMAIN hist.start.files : ChangedAtStart(s) => CallsOf(s) # <<>>

----------------------------------------------------------------------------
(* Loading the persisted structures from their backing files *)

BackingFiles == {"sync_cache.json", "id_mapping.json", "deleted_pages.json",
                 ".failed_attachments"}
FileStates == {"missing", "corrupt", "valid"}

\* ContentSyncer._load_cache: json.load is not guarded
_load_cache(state) ==
    IF state = "missing" THEN "empty"
    ELSE IF state = "corrupt" THEN "raised"
    ELSE "content"

\* LocalContentManager._load_id_mapping: any exception gives {}
_load_id_mapping(state) == IF state = "valid" THEN "content" ELSE "empty"

\* ContentSyncer._load_deleted_pages: any exception gives set()
_load_deleted_pages(state) == IF state = "valid" THEN "content" ELSE "empty"

\* the file .failed_attachments in a given state (a valid one records nothing)
FailureFile(state) ==
    [state |-> IF state = "valid" THEN "ok" ELSE state, data |-> EmptyDict]

\* what _should_skip_attachment reads from the file
ReadFailures(state) ==
    IF _should_skip_attachment(FailureFile(state), "f.png", 0) THEN "content"
    ELSE IF state = "valid" THEN "content" ELSE "empty"

\* _mark_failed_attachment on the file: the failure is in the file afterwards
RecordFailure(state) ==
    LET after == _mark_failed_attachment(FailureFile(state), "f.png", 0)
    IN  IF HasFailures(after, "f.png") /\ after.data["f.png"] = <<0>>
        THEN "recorded" ELSE "not_recorded"

InitLoad ==
    /\ InitSync /\ files = EmptyDict /\ idMapFile = EmptyDict
    /\ upd = NoUpdate
    /\ InitAttachIdle
    /\ InitUnitIdle
    /\ backing \in [BackingFiles -> FileStates]
    /\ loaded = NoLoad

\* one structure is loaded (or, for the failure memory, written to)
Load(op, file, result) ==
    /\ loaded' = [op |-> op, file |-> file, state |-> backing[file], result |-> result]
    /\ backing' = IF result = "recorded" THEN [backing EXCEPT ![file] = "valid"]
                  ELSE backing
    /\ UNCHANGED <<syncVars, upd, attachVars, unitVars>>

LoadCache == Load("_load_cache", "sync_cache.json", _load_cache(backing["sync_cache.json"]))
LoadIdMapping ==
    Load("_load_id_mapping", "id_mapping.json", _load_id_mapping(backing["id_mapping.json"]))
LoadDeletedPages ==
    Load("_load_deleted_pages", "deleted_pages.json",
         _load_deleted_pages(backing["deleted_pages.json"]))
LoadFailures ==
    Load("_should_skip_attachment", ".failed_attachments",
         ReadFailures(backing[".failed_attachments"]))
MarkFailure ==
    Load("_mark_failed_attachment", ".failed_attachments",
         RecordFailure(backing[".failed_attachments"]))

NextLoad ==
    \/ LoadCache
    \/ LoadIdMapping
    \/ LoadDeletedPages
    \/ LoadFailures
    \/ MarkFailure

LoadSpec == InitLoad /\ [][NextLoad]_vars

\* C19: loading a structure from a missing or unparsable file raises nothing
\* and gives the empty structure, and recording a failure on such a failure
\* memory records it as if the file were empty.
C19_CorruptStateNotFatal ==
    (loaded.op # "none" /\ loaded.state \in {"missing", "corrupt"}) =>
        /\ loaded.result # "raised"
        /\ loaded.op = "_mark_failed_attachment" => loaded.result = "recorded"
        /\ loaded.op # "_mark_failed_attachment" => loaded.result = "empty"

----------------------------------------------------------------------------
(* Properties of the Local Mirror *)

\* the listed pages pull saved
SavedPages == { k \in 1..Len(hist.start.listed) : ToSave(hist.start.listed[k]) }

\* C23: after pull saved n pages with pairwise distinct titles into an empty
\* content directory, get_local_content has exactly n records: the companion
\* _mapping file of a document is not a record.
C23_EnumerationPerDocument ==
    (PullReturned /\ hist.start.files = EmptyDict
     /\ \A j, k \in SavedPages :
           j # k => hist.start.listed[j].title # hist.start.listed[k].title)
    => Cardinality(DOMAIN get_local_content(files)) = Cardinality(SavedPages)

----------------------------------------------------------------------------
(* LocalContentManager on its own: save_content and delete_local_content   *)
(* called on a content directory and an ID mapping                          *)

NameLimit == 100        \* safe_name[:100]

\* str.isalnum() on one character
IsAlnum(c) == c \in {"a", "b", "A", "B", "1"}

\* str.split('-')
RECURSIVE SplitDash(_)
SplitDash(s) ==
    IF \E i \in 1..Len(s) : s[i] = "-"
    THEN LET i == CHOOSE j \in 1..Len(s) :
                      s[j] = "-" /\ \A k \in 1..(j - 1) : s[k] # "-"
         IN  <<SubSeq(s, 1, i - 1)>> \o SplitDash(SubSeq(s, i + 1, Len(s)))
    ELSE <<s>>

\* '-'.join(parts)
RECURSIVE JoinDash(_)
JoinDash(parts) ==
    IF parts = <<>> THEN <<>>
    ELSE IF Len(parts) = 1 THEN parts[1]
    ELSE parts[1] \o <<"-">> \o JoinDash(Tail(parts))

\* _sanitize_filename: alphanumerics lower-cased, everything else a dash;
\* runs of dashes collapsed, leading and trailing ones dropped; 100 characters
_sanitize_filename(title) ==
    LET safe_name == [i \in 1..Len(title) |->
                         IF IsAlnum(title[i]) THEN LowerChar(title[i]) ELSE "-"]
        joined == JoinDash(SelectSeq(SplitDash(safe_name), LAMBDA part : part # <<>>))
    IN  SubSeq(joined, 1, IF Len(joined) < NameLimit THEN Len(joined) ELSE NameLimit)

\* a delete that only unlinks the file
delete_local_contentUnlinkOnly(fs, map, mapFile, filename) ==
    [files |-> Remove(fs, filename), map |-> map, mapFile |-> mapFile]

\* delete_local_content: the content directory, id_to_filename and
\* id_mapping.json after the call
delete_local_content(fs, map, mapFile, filename) ==
    LET page_id == get_page_id_from_filename(map, filename)
    IN  IF filename \notin DOMAIN fs
        THEN [files |-> fs, map |-> map, mapFile |-> mapFile]
        ELSE IF page_id # NoId
        THEN [files |-> Remove(fs, filename), map |-> Remove(map, page_id),
              mapFile |-> Remove(map, page_id)]
        ELSE [files |-> Remove(fs, filename), map |-> map, mapFile |-> mapFile]

\* The titles of the documents saved
TitleChars == {"a", "B", "1", " ", "-", "_", "."}
LongTitle == [i \in 1..(NameLimit + 1) |-> "a"]
LocalTitles ==
    { <<c>> : c \in TitleChars } \cup { <<c, d>> : c, d \in TitleChars }
    \cup { <<"a", " ", "B">>, <<"a", " ", " ", "B">>, LongTitle }

InitLocal ==
    /\ InitRun
    /\ files \in {EmptyDict, SyncedFiles}
    /\ cacheFile = EmptyDict
    /\ idMapFile \in {EmptyDict, FullMapping}
    /\ id_to_filename \in {idMapFile} \cup {Remove(idMapFile, i) : i \in DOMAIN idMapFile}
    /\ upd = NoUpdate /\ InitAttachIdle /\ InitLoadIdle
    /\ dl = NoDownload /\ InitWatchIdle
    /\ loc = NoLocal

\* save_content is called
SaveCall(content) ==
    /\ loc.op = "none"
    /\ loc' = [op |-> "save_content", content |-> content, opened |-> <<>>,
               before |-> [files |-> files]]
    /\ UNCHANGED <<syncVars, upd, attachVars, loadVars, dl, watchVars>>

\* save_content opens and writes its next file
SaveWrite ==
    /\ loc.op = "save_content"
    /\ Len(loc.opened) < 2
    /\ LET k == Len(loc.opened) + 1
           w == SaveWrites(loc.content)[k]
       IN  /\ files' = Put(files, w.name, w.payload)
           /\ loc' = [loc EXCEPT !.opened = Append(@, w)]
    /\ UNCHANGED <<cacheFile, deletedFile, idMapFile, id_to_filename, pc,
                   local_content, cache, deleted_pages, todoDel, todoRec, listing,
                   calls, pullLog, nextId, runs, edits, faults, hist,
                   upd, attachVars, loadVars, dl, watchVars>>

\* delete_local_content is called, at first or after a save
DeleteLocal(filename) ==
    LET r == delete_local_content(files, id_to_filename, idMapFile, filename)
    IN  /\ loc.op = "none" \/ (loc.op = "save_content" /\ Len(loc.opened) = 2)
        /\ files' = r.files
        /\ id_to_filename' = r.map
        /\ idMapFile' = r.mapFile
        /\ loc' = [op |-> "delete_local_content", filename |-> filename,
                   before |-> [files |-> files, map |-> id_to_filename,
                               mapFile |-> idMapFile]]
        /\ UNCHANGED <<cacheFile, deletedFile, pc,
                       local_content, cache, deleted_pages, todoDel, todoRec, listing,
                       calls, pullLog, nextId, runs, edits, faults, hist,
                       upd, attachVars, loadVars, dl, watchVars>>

NextLocal ==
    \/ \E title \in LocalTitles, id \in {NoId, 1},
          body \in {NestedBody("v1"), FlatBody("v1"), EmptyBody} :
          SaveCall(Doc(id, title, body))
    \/ SaveWrite
    \/ \E filename \in UserStems \cup {MappingName(<<"a">>)} : DeleteLocal(filename)

LocalSpec == InitLocal /\ [][NextLocal]_vars

\* save_content has returned
SaveDone == loc.op = "save_content" /\ Len(loc.opened) = 2

\* C24: the file name under which save_content stores a document is
\* _sanitize_filename of its title, for every title.
C24_FilenameDerivation ==
    SaveDone => loc.opened[2].name = _sanitize_filename(loc.content.title)

\* C28: save_content writes two files, <name>_mapping first and <name>
\* second, both with the same payload: the id and the title of the given
\* document and its normalised body; while only the first is written the
\* document file is as it was.
C28_SaveWritesBoth ==
    /\ loc.op = "save_content" /\ Len(loc.opened) = 1
       => LET name == DeriveName(loc.content.title)
          IN  /\ loc.opened[1].name = MappingName(name)
              /\ MappingName(name) \in DOMAIN files
              /\ name \in DOMAIN files <=> name \in DOMAIN loc.before.files
              /\ name \in DOMAIN files => files[name] = loc.before.files[name]
    /\ SaveDone
       => LET name == DeriveName(loc.content.title)
              payload == Doc(loc.content.id, loc.content.title,
                             IF loc.content.body.fmt = "nested"
                             THEN FlatBody(loc.content.body.value) ELSE EmptyBody)
          IN  /\ loc.opened[1].name = MappingName(name)
              /\ loc.opened[2].name = name
              /\ loc.opened[1].payload = payload
              /\ loc.opened[2].payload = payload
              /\ files[name] = payload /\ files[MappingName(name)] = payload
              /\ \A f \in DOMAIN files \ {name, MappingName(name)} :
                    f \in DOMAIN loc.before.files /\ files[f] = loc.before.files[f]

\* C28 witness: a document with a nested body was saved over an existing file
C28_Witness ==
    /\ SaveDone
    /\ loc.content.body.fmt = "nested"
    /\ DeriveName(loc.content.title) \in DOMAIN loc.before.files

\* delete_local_content has returned
DeleteDone == loc.op = "delete_local_content"

\* C26: delete_local_content of an existing file removes the file and the
\* entry of id_to_filename whose value is the file name, and id_mapping.json
\* then holds id_to_filename; every other file and entry is as before; for a
\* file that does not exist nothing changes.
C26_LocalDelete ==
    DeleteDone =>
        LET b == loc.before
            f == loc.filename
        IN  /\ f \notin DOMAIN b.files
               => files = b.files /\ id_to_filename = b.map /\ idMapFile = b.mapFile
            /\ f \in DOMAIN b.files
               => /\ DOMAIN files = DOMAIN b.files \ {f}
                  /\ \A g \in DOMAIN files : files[g] = b.files[g]
                  /\ \A i \in DOMAIN id_to_filename : id_to_filename[i] # f
                  /\ \A i \in DOMAIN b.map :
                        b.map[i] # f => /\ i \in DOMAIN id_to_filename
                                        /\ id_to_filename[i] = b.map[i]
                  /\ DOMAIN id_to_filename \subseteq DOMAIN b.map
                  /\ (\E i \in DOMAIN b.map : b.map[i] = f)
                     => idMapFile = id_to_filename
                  /\ (\A i \in DOMAIN b.map : b.map[i] # f)
                     => idMapFile = b.mapFile

\* C26 witness: a mapped file was deleted while its companion, other files
\* and other entries exist
C26_Witness ==
    /\ DeleteDone
    /\ loc.filename \in DOMAIN loc.before.files
    /\ \E i \in DOMAIN loc.before.map : loc.before.map[i] = loc.filename
    /\ id_to_filename # EmptyDict
    /\ MappingName(loc.filename) \in DOMAIN files

----------------------------------------------------------------------------
(* ConfluenceAPI.download_attachment on its own.  A download link is       *)
(* [relative, path]: whether it starts with '/', and its path segments;     *)
(* NoLink is a missing or empty _links.download.  A candidate URL is        *)
(* [base, path]: whether it starts with base_url, and its path segments.    *)

max_retries == 3

NoLink == [relative |-> FALSE, path |-> <<>>]
DownloadLinks ==
    { NoLink,
      [relative |-> FALSE, path |-> <<"https://cdn", "f.png">>],
      [relative |-> TRUE, path |-> <<"files", "f.png">>],
      [relative |-> TRUE, path |-> <<"wiki", "files", "f.png">>],
      [relative |-> TRUE, path |-> <<"download", "attachments", "1", "f.png">>],
      [relative |-> TRUE, path |-> <<"rest", "download", "f.png">>] }

\* lines 527-548: url_patterns
url_patterns(page_id, download_url) ==
    LET p == download_url.path
        \* re.sub(r'^/(wiki|rest)/', '/', download_url)
        clean_path == IF Len(p) > 1 /\ p[1] \in {"wiki", "rest"} THEN Tail(p) ELSE p
        Url(path) == [base |-> TRUE, path |-> path]
        four == << Url(clean_path), Url(<<"wiki">> \o clean_path),
                   Url(<<"rest">> \o clean_path), Url(<<"download">> \o clean_path) >>
    IN  IF ~download_url.relative
        THEN << [base |-> FALSE, path |-> p] >>
        ELSE IF \E i \in 1..Len(clean_path) : clean_path[i] = "download"
        THEN four \o << Url(<<"attachments", page_id, "download">>),
                        Url(<<"wiki", "attachments", page_id, "download">>) >>
        ELSE four

\* the bytes a URL serves
Bytes(url) == <<"bytes", url>>

\* a download that gives up when one URL is exhausted
AfterUrlRaises(d) == [d EXCEPT !.stage = "raised"]

\* the inner loop over a URL ended without a return: the next URL, or
\* lines 587-594 after the last
AfterUrl(d) ==
    IF d.url < Len(d.patterns)
    THEN [d EXCEPT !.url = @ + 1, !.attempt = 1]
    ELSE [d EXCEPT !.stage = "raised"]

\* lines 519-523 and 550: the call with its arguments
download_attachment(page_id, download_url) ==
    IF download_url = NoLink
    THEN [stage |-> "raised", link |-> download_url, patterns |-> <<>>, url |-> 0,
          attempt |-> 0, requests |-> <<>>, content |-> <<>>]
    ELSE [stage |-> "requesting", link |-> download_url,
          patterns |-> url_patterns(page_id, download_url), url |-> 1,
          attempt |-> 1, requests |-> <<>>, content |-> <<>>]

\* a request loop that retries a URL that answered 404 like any failure
download_requestRetry404(d, answer) ==
    LET sent == [d EXCEPT !.requests = Append(@, [url |-> d.url, attempt |-> d.attempt,
                                                    answer |-> answer])]
    IN  IF answer = "ok"
        THEN [sent EXCEPT !.stage = "returned", !.content = Bytes(d.patterns[d.url])]
        ELSE IF d.attempt < max_retries
        THEN [sent EXCEPT !.attempt = @ + 1]
        ELSE AfterUrl(sent)

\* lines 553-585: one request of the loops and what follows its answer:
\* "ok", "404", or "error" (a RequestException: no answer, or a status that
\* raise_for_status rejects)
download_request(d, answer) ==
    LET sent == [d EXCEPT !.requests = Append(@, [url |-> d.url, attempt |-> d.attempt,
                                                    answer |-> answer])]
    IN  CASE answer = "ok" ->
                [sent EXCEPT !.stage = "returned", !.content = Bytes(d.patterns[d.url])]
          [] answer = "404" -> AfterUrl(sent)
          [] OTHER ->
                IF d.attempt < max_retries
                THEN [sent EXCEPT !.attempt = @ + 1]
                ELSE AfterUrl(sent)

InitDownload ==
    /\ InitSync /\ files = EmptyDict /\ idMapFile = EmptyDict
    /\ upd = NoUpdate /\ InitAttachIdle /\ InitLoadIdle
    /\ loc = NoLocal /\ InitWatchIdle
    /\ \E link \in DownloadLinks : dl = [stage |-> "input", link |-> link]

\* download_attachment is called
DownloadCall ==
    /\ dl.stage = "input"
    /\ dl' = download_attachment("1", dl.link)
    /\ UNCHANGED <<syncVars, upd, attachVars, loadVars, loc, watchVars>>

\* the session answers the next request
DownloadRequest(answer) ==
    /\ dl.stage = "requesting"
    /\ dl' = download_request(dl, answer)
    /\ UNCHANGED <<syncVars, upd, attachVars, loadVars, loc, watchVars>>

NextDownload ==
    \/ DownloadCall
    \/ \E answer \in {"ok", "404", "error"} : DownloadRequest(answer)

DownloadSpec == InitDownload /\ [][NextDownload]_vars

\* the requests made for the k-th candidate URL
RequestsTo(k) == { i \in 1..Len(dl.requests) : dl.requests[i].url = k }

\* C27: download_attachment requests the candidate URLs in their order; it
\* returns the bytes of the first successful answer, which is its last
\* request; it raises exactly when no answer was successful, and then every
\* candidate was requested until it answered 404 or failed max_retries
\* times; without a download link it raises without any request.
C27_DownloadResult ==
    dl.stage \in {"returned", "raised"} =>
        LET reqs == dl.requests
            n == Len(reqs)
        IN  /\ n > 0 => reqs[1].url = 1
            /\ \A i \in 1..(n - 1) : reqs[i + 1].url \in {reqs[i].url, reqs[i].url + 1}
            /\ \A i \in 1..(n - 1) : reqs[i].answer # "ok"
            /\ dl.stage = "returned"
               <=> (n > 0 /\ reqs[n].answer = "ok")
            /\ dl.stage = "returned"
               => dl.content = Bytes(url_patterns("1", dl.link)[reqs[n].url])
            /\ dl.stage = "raised" /\ dl.link # NoLink
               => \A k \in 1..Len(url_patterns("1", dl.link)) :
                     \/ \E i \in RequestsTo(k) : reqs[i].answer = "404"
                     \/ Cardinality({ i \in RequestsTo(k) : reqs[i].answer = "error" })
                        = max_retries
            /\ dl.link = NoLink => dl.stage = "raised" /\ n = 0

\* C27 witness: the bytes came from the third candidate, after a 404 and
\* three failures
C27_Witness ==
    /\ dl.stage = "returned"
    /\ dl.requests[Len(dl.requests)].url = 3
    /\ \E i \in RequestsTo(1) : dl.requests[i].answer = "404"
    /\ Cardinality(RequestsTo(2)) = max_retries

----------------------------------------------------------------------------
(* watch: one Observer with one ContentChangeHandler.  The observer thread *)
(* takes the events of its queue one at a time and calls on_modified in    *)
(* that thread; on_modified calls push_to_confluence and returns when it   *)
(* has returned.  A push is kept as its load of sync_cache.json and its    *)
(* write-back; the entries of the cache are named by the call that wrote   *)
(* them.  Paths are sequences of characters.                                *)

MaxEvents == 3

JsonSuffix == <<".", "j", "s", "o", "n">>
WatchPaths ==
    { <<"a">> \o JsonSuffix,
      <<"a", "_", "m">> \o JsonSuffix,
      <<"a", ".", "t", "x", "t">>,
      <<"j", "s", "o", "n">>,
      <<"a">> \o JsonSuffix \o <<"~">>,
      <<"a", ".", "J", "S", "O", "N">> }
WatchEvents == [is_directory : BOOLEAN, src_path : WatchPaths]

\* str.endswith
EndsWith(s, suffix) ==
    /\ Len(s) >= Len(suffix)
    /\ SubSeq(s, Len(s) - Len(suffix) + 1, Len(s)) = suffix

\* a handler that pushes for every file
on_modifiedAnyFile(event) == ~event.is_directory

\* on_modified: whether it calls push_to_confluence
on_modified(event) == ~event.is_directory /\ EndsWith(event.src_path, JsonSuffix)

\* an observer that calls each handler in a thread of its own
ObserverFreeAlways(calls_made) == TRUE

\* the observer thread is not inside a call of on_modified
ObserverFree(calls_made) ==
    \A i \in 1..Len(calls_made) : calls_made[i].stage = "returned"

InitWatch ==
    /\ InitSync /\ files = EmptyDict /\ idMapFile = EmptyDict
    /\ upd = NoUpdate /\ InitAttachIdle /\ InitLoadIdle
    /\ loc = NoLocal /\ dl = NoDownload
    /\ InitWatchIdle

\* events emitted so far
Emitted == Len(event_queue) + Len(invocations)

\* something under the content directory is modified
FileEvent(event) ==
    /\ Emitted < MaxEvents
    /\ event_queue' = Append(event_queue, event)
    /\ UNCHANGED <<syncVars, upd, attachVars, loadVars, loc, dl, invocations, persisted>>

\* the observer thread takes the next event and calls on_modified
Dispatch ==
    /\ event_queue # <<>>
    /\ ObserverFree(invocations)
    /\ event_queue' = Tail(event_queue)
    /\ invocations' = Append(invocations,
           [event |-> Head(event_queue),
            stage |-> IF on_modified(Head(event_queue)) THEN "push" ELSE "returned",
            pushes |-> 0, loaded |-> {}, resaved |-> FALSE])
    /\ UNCHANGED <<syncVars, upd, attachVars, loadVars, loc, dl, persisted>>

\* push_to_confluence, line 1074: _load_cache
PushLoad(i) ==
    /\ invocations[i].stage = "push"
    /\ invocations' = [invocations EXCEPT ![i].stage = "loaded",
                                          ![i].pushes = @ + 1,
                                          ![i].loaded = persisted]
    /\ UNCHANGED <<syncVars, upd, attachVars, loadVars, loc, dl, event_queue, persisted>>

\* push_to_confluence, lines 1127 and 1143: save_content writes
\* <name>_mapping.json and <name>.json, which the observer sees
PushResave(i) ==
    /\ invocations[i].stage = "loaded"
    /\ ~invocations[i].resaved
    /\ Emitted + 2 <= MaxEvents
    /\ event_queue' = event_queue
                      \o << [is_directory |-> FALSE,
                             src_path |-> <<"a", "_", "m">> \o JsonSuffix],
                            [is_directory |-> FALSE, src_path |-> <<"a">> \o JsonSuffix] >>
    /\ invocations' = [invocations EXCEPT ![i].resaved = TRUE]
    /\ UNCHANGED <<syncVars, upd, attachVars, loadVars, loc, dl, persisted>>

\* push_to_confluence, lines 1151-1153: _save_cache, and the return to
\* on_modified and to the observer
PushWriteBack(i) ==
    /\ invocations[i].stage = "loaded"
    /\ persisted' = invocations[i].loaded \cup {i}
    /\ invocations' = [invocations EXCEPT ![i].stage = "returned"]
    /\ UNCHANGED <<syncVars, upd, attachVars, loadVars, loc, dl, event_queue>>

NextWatch ==
    \/ \E event \in WatchEvents : FileEvent(event)
    \/ Dispatch
    \/ \E i \in 1..Len(invocations) : PushLoad(i)
    \/ \E i \in 1..Len(invocations) : PushResave(i)
    \/ \E i \in 1..Len(invocations) : PushWriteBack(i)

WatchSpec == InitWatch /\ [][NextWatch]_vars

C22_WatcherTrigger ==
    \A i \in 1..Len(invocations) :
        LET e == invocations[i].event
            n == Len(e.src_path)
            json == /\ ~e.is_directory
                    /\ n >= 5
                    /\ SubSeq(e.src_path, n - 4, n) = <<".", "j", "s", "o", "n">>
        IN  /\ invocations[i].stage = "returned"
               => invocations[i].pushes = IF json THEN 1 ELSE 0
            /\ invocations[i].pushes <= 1
            /\ ~json => invocations[i].pushes = 0

\* C22 witness: calls have returned for a .json file, for a directory whose
\* name ends in .json, and for a file of another name
C22_Witness ==
    \E i, j, k \in 1..Len(invocations) :
        /\ invocations[i].stage = "returned" /\ invocations[i].pushes = 1
        /\ invocations[j].stage = "returned" /\ invocations[j].event.is_directory
        /\ EndsWith(invocations[j].event.src_path, JsonSuffix)
        /\ invocations[k].stage = "returned" /\ ~invocations[k].event.is_directory
        /\ ~EndsWith(invocations[k].event.src_path, JsonSuffix)

----------------------------------------------------------------------------
(* Repeated runs *)

\* C25: a pull that follows a pull of the same listing, both having saved
\* every listed page that is not tombstoned, leaves the content directory as
\* the first pull left it: the same files with the same contents.
C25_PullStable ==
    (PullReturned /\ hist.rerun
     /\ \A k \in 1..Len(hist.start.listed) :
           CountOf(hist.start.listed[k].id, "get_failed") = 0)
    => files = hist.start.files

\* C25 witness: the second pull has saved two pages again
C25_Witness ==
    /\ PullReturned /\ hist.rerun
    /\ Len(hist.start.listed) = 2
    /\ \A k \in 1..2 : CountOf(hist.start.listed[k].id, "save") = 1

\* Runs of push that may be stopped at any point
NextInterrupt ==
    \/ \E stem \in UserStems : \E id \in {NoId, OwnId(stem)} : UserWrite(stem, id)
    \/ \E stem \in UserStems : UserDelete(stem)
    \/ PushStart(TRUE)
    \/ \E stem \in todoDel, resp \in DeleteAnswers : PushDelete(stem, resp)
    \/ \E stem \in todoRec, a \in PushAnswers(nextId), saveOk \in BOOLEAN :
          PushRecord(stem, a[1], a[2], a[3], saveOk)
    \/ PushFinish
    \/ PushInterrupt

InterruptSpec == Init /\ [][NextInterrupt]_vars

\* push has ended without reaching its write-back
PushStopped == pc = "idle" /\ hist.last \in {"aborted", "interrupted"}

\* C29: while push runs, and when it was stopped before its end, the
\* persisted Sync Cache and Tombstone Set are what they were at its start,
\* and every record changed at the start that still exists is changed for
\* the next push.
C29_WriteBackAtEnd ==
    (pc = "push" \/ PushStopped) =>
        /\ cacheFile = hist.start.cache
        /\ deletedFile = hist.start.deleted
        /\ \A s \in DOMAIN hist.start.files :
              (ChangedAtStart(s) /\ s \in DOMAIN files)
              => s \in ChangedRecords(get_local_content(files), cacheFile)

\* C29 witness: the process was stopped after push had created a page and
\* re-saved its record, while a record changed at the start was not handled
\* yet
C29_Witness ==
    /\ PushStopped /\ hist.last = "interrupted"
    /\ \E s \in DOMAIN calls : \E i \in OpsOf(s, "save") : calls[s][i].kind = "ok"
    /\ \E s \in DOMAIN hist.start.files :
          ChangedAtStart(s) /\ s \in DOMAIN files /\ s \notin DOMAIN calls

\* C30: when a push that was stopped is run again and returns, no record has
\* more than one remote page created for it by the two runs.
C30_NoDuplicateOnRerun ==
    PushReturned =>
        \A s \in DOMAIN calls :
            Cardinality(CreatedIds(s)
                        \cup (IF s \in DOMAIN hist.start.before
                              THEN hist.start.before[s] ELSE {})) <= 1

----------------------------------------------------------------------------
(* Properties of push: deletions *)

\* C31: push issues no remote delete for an id that a record of the
\* enumeration of the run embeds.
C31_NoDeleteOfLiveId ==
    (pc = "push" \/ PushEnded) =>
        \A s \in DOMAIN calls : \A i \in OpsOf(s, "delete") :
            \A f \in DOMAIN hist.start.files :
                hist.start.files[f].id # calls[s][i].id

----------------------------------------------------------------------------
(* Properties of a push that follows a pull *)

\* C32: a push that runs right after a pull which listed the space and
\* fetched and saved every page, no file written in between and no request
\* failing, issues no remote create, update or delete.
C32_PushAfterPullNoOp ==
    (pc = "push" /\ hist.last = "pull" /\ faults = 0) =>
        \A s \in DOMAIN calls : \A i \in 1..Len(calls[s]) :
            calls[s][i].op \notin {"create", "update", "delete"}

----------------------------------------------------------------------------
(* Properties of update_page: the draft conversion of a move *)

\* C33: when update_page has issued a draft conversion, it fetches the
\* page's status at most three times after it; when the conversion is
\* rejected no status is fetched; and when the conversion is rejected or no
\* fetch observes the draft status, update_page ends with an error and
\* issues no request that carries the new space or the status current.
C33_DraftConversionFailure ==
    (UpdateDone /\ DraftPuts # {}) =>
        LET d == CHOOSE k \in DraftPuts : TRUE
            polled == { k \in 1..Len(UpdReqs) : k > d /\ UpdReqs[k].m = "GET" }
            n == PollsMade(upd.u.polls)
            observed == IsSuccess(upd.u.draft) /\ upd.u.polls[n] = "draft"
        IN  /\ Cardinality(DraftPuts) = 1
            /\ Cardinality(polled) <= 3
            /\ ~IsSuccess(upd.u.draft) => polled = {}
            /\ IsSuccess(upd.u.draft) => Cardinality(polled) = n
            /\ ~observed
               => /\ upd.res.kind # "ok"
                  /\ \A k \in UpdPuts :
                        UpdReqs[k].status # "current" /\ UpdReqs[k].spaceId # "new"

\* C33 witness: the conversion was accepted and three fetches of the status
\* saw the page still current
C33_Witness ==
    /\ UpdateDone /\ DraftPuts # {}
    /\ IsSuccess(upd.u.draft)
    /\ \A i \in 1..3 : upd.u.polls[i] = "current"
    /\ Len(UpdReqs) = 5
    /\ upd.res.kind = "api" /\ upd.res.status = 400

----------------------------------------------------------------------------
(* Properties of download_attachment: the number of requests *)

\* C34: at every moment of a download, each candidate URL was requested at
\* most max_retries times, in attempts numbered from one; a request answered
\* 404 is the last one to its URL; a request that failed otherwise is
\* followed by the next attempt on the same URL unless it was attempt
\* max_retries; and the requests of the call number at most max_retries
\* times the candidate URLs.
C34_BoundedRetries ==
    dl.stage \in {"requesting", "returned", "raised"} =>
        LET reqs == dl.requests
            n == Len(reqs)
            ended == dl.stage \in {"returned", "raised"}
        IN  /\ n <= max_retries * Len(dl.patterns)
            /\ \A k \in 1..Len(dl.patterns) : Cardinality(RequestsTo(k)) <= max_retries
            /\ \A i \in 1..n :
                  /\ reqs[i].url \in 1..Len(dl.patterns)
                  /\ reqs[i].attempt
                     = Cardinality({ j \in 1..i : reqs[j].url = reqs[i].url })
                  /\ reqs[i].answer = "404"
                     => \A j \in (i + 1)..n : reqs[j].url # reqs[i].url
                  /\ (reqs[i].answer = "error" /\ reqs[i].attempt < max_retries)
                     => IF i < n
                        THEN reqs[i + 1].url = reqs[i].url
                        ELSE dl.stage = "requesting" /\ dl.url = reqs[i].url
                  /\ (reqs[i].answer = "error" /\ reqs[i].attempt = max_retries)
                     => \A j \in (i + 1)..n : reqs[j].url # reqs[i].url

\* C34 witness: a download with six candidate URLs ended after the first
\* answered 404 at once and each of the others failed max_retries times
C34_Witness ==
    /\ dl.stage = "raised"
    /\ Len(dl.patterns) = 6
    /\ Cardinality(RequestsTo(1)) = 1 /\ dl.requests[1].answer = "404"
    /\ \A k \in 2..6 : Cardinality(RequestsTo(k)) = max_retries
    /\ Len(dl.requests) = 1 + 5 * max_retries

----------------------------------------------------------------------------
(* Properties of _download_attachment: the record of failures *)

\* C35: an attempt that the skip decision rules out makes no download
\* request and leaves the record of failures as it was; after a failed
\* download the record holds, for the name, the failures it held that are
\* less than 24 hours old and exactly one new time, that of the attempt;
\* after a successful download the record holds no entry for the name.
C35_FailureMemoryProtocol ==
    Attempted =>
        /\ _should_skip_attachment(attLog.before, attLog.filename, attLog.at)
           => attLog.event = "skip" /\ failedFile = attLog.before
        /\ attLog.event = "failed"
           => /\ HasFailures(failedFile, attLog.filename)
              /\ failedFile.data[attLog.filename]
                 = Recent(Recorded, attLog.at) \o <<attLog.at>>
        /\ attLog.event = "downloaded"
           => ~HasFailures(failedFile, attLog.filename)

----------------------------------------------------------------------------
(* Properties of _download_attachment: the metadata of an attachment *)

\* C36: when the attachment was downloaded and written and its metadata
\* could not be fetched or stored, the attempt ends as a download, the
\* attachment file is written, no failure is recorded for the name and the
\* record of failures is the one the clearing of the name left.
C36_MetadataBestEffort ==
    (Attempted /\ attLog.meta = "failed") =>
        /\ attLog.event = "downloaded"
        /\ attLog.wrote
        /\ ~HasFailures(failedFile, attLog.filename)
        /\ failedFile = _clear_failed_attachment(attLog.before, attLog.filename)

\* C36 witness: the metadata step failed for a name that had failures
\* recorded before the attempt
C36_Witness ==
    /\ Attempted /\ attLog.meta = "failed"
    /\ attLog.wrote
    /\ Len(Recorded) >= 1
    /\ ~HasFailures(failedFile, attLog.filename)

----------------------------------------------------------------------------
(* Properties of push: the page a record is pushed to *)

----------------------------------------------------------------------------
(* Properties of push: deleted pages *)

\* C38: every id of the persisted Tombstone Set is one whose remote delete
\* returned in a push.  When a delete call of a push raised, the push does
\* not add the id to the deleted pages, the mapping keeps the id's entry,
\* and when the push has returned the Sync Cache still holds the entry of
\* the deleted file, so that, the file being absent, the next push finds it
\* among the deleted files and resolves the same id.
C38_TombstoneAfterDelete ==
    /\ deletedFile \subseteq hist.pushDeleted
    /\ (pc = "push" \/ PushEnded) =>
          \A s \in DOMAIN calls : \A i \in OpsOf(s, "delete") :
              calls[s][i].kind # "ok" =>
                  LET R == calls[s][i].id
                  IN  /\ R \in deleted_pages \cup deletedFile => R \in hist.start.deleted
                      /\ R \in DOMAIN id_to_filename /\ id_to_filename[R] = s
                      /\ R \in DOMAIN idMapFile /\ idMapFile[R] = s
                      /\ PushReturned
                         => /\ s \in DOMAIN cacheFile
                            /\ cacheFile[s] = hist.start.cache[s]
                            /\ s \notin DOMAIN files
                               => /\ s \in DOMAIN cacheFile \ DOMAIN files
                                  /\ get_page_id_from_filename(idMapFile, s) = R

\* C38 witness: a push returned after a delete call of it had raised, the
\* id being no deleted page's, and the file is still absent
C38_Witness ==
    /\ PushReturned
    /\ \E s \in DOMAIN calls : \E i \in OpsOf(s, "delete") :
          /\ calls[s][i].kind # "ok"
          /\ calls[s][i].id \notin deletedFile
          /\ s \in DOMAIN cacheFile \ DOMAIN files

----------------------------------------------------------------------------
(* Properties of the local mirror after pulls *)

\* C39: when the content directory was empty at first, nothing was edited
\* and the last run was a pull, no two document files, the _mapping
\* companions aside, embed the same remote id.
C39_UniqueRecordPerId ==
    (edits = 0 /\ cacheFile = EmptyDict /\ hist.last \in {"pull", "pull_aborted"})
    => \A s, t \in DOMAIN files :
          (s # t /\ files[s].id = files[t].id /\ files[s].id # NoId)
          => (s = MappingName(t) \/ t = MappingName(s))

----------------------------------------------------------------------------
(* Properties of pull: what it leaves alone *)

\* C40: no step of pull_from_confluence, the return after a failed listing
\* of the space included, issues a remote create, update or
\* delete, and none changes the persisted Sync Cache, the persisted
\* Tombstone Set, the persisted ID Mapping or the mapping held in memory.
C40_PullFrame ==
    [][ (pc = "pull" \/ pc' = "pull" \/ (runs' # runs /\ pc' = "idle"))
        => /\ calls' = NoCalls
           /\ cacheFile' = cacheFile
           /\ deletedFile' = deletedFile
           /\ idMapFile' = idMapFile
           /\ id_to_filename' = id_to_filename
      ]_vars

\* C40 witness: a pull that saved a page has returned; the Sync Cache and
\* the Tombstone Set hold what an earlier push left, and the ID Mapping has
\* entries
C40_Witness ==
    /\ pc = "idle" /\ hist.last = "pull"
    /\ \E id \in DOMAIN pullLog :
          \E k \in 1..Len(pullLog[id]) : pullLog[id][k] = "save"
    /\ calls = NoCalls
    /\ cacheFile # EmptyDict /\ cacheFile = hist.start.cache
    /\ deletedFile # {} /\ deletedFile = hist.start.deleted
    /\ idMapFile # EmptyDict

====
